---- MODULE Spec2Model ----
(***************************************************************************)
(* A model of pelegm/drv: discrete probability spaces (drv/pspace.py),     *)
(* real random variables over them (drv/rv.py, drv/real.py) and the        *)
(* Operator framework over integer random variables (drv/core.py, drv.py). *)
(*                                                                         *)
(* Probabilities are exact rationals <<numerator, denominator>>, as sympy  *)
(* keeps them after sympify; objects live in heaps (sequences) and an      *)
(* object's identity is its index in its heap.                             *)
(***************************************************************************)
EXTENDS Integers, Sequences, FiniteSets, TLC

VARIABLES pspaces, rvs, drvs, arg, last, pc, pool, opr, d, todo, _pool_cache, stack

vars == <<pspaces, rvs, drvs, arg, last, pc, pool, opr, d, todo, _pool_cache, stack>>

(***************************************************************************)
(* Bounds of the model.                                                    *)
(***************************************************************************)
MaxLen == 3
MaxWeight == 2
MaxSpaces == 3

(***************************************************************************)
(* Exact rational arithmetic.                                              *)
(***************************************************************************)
Abs(x) == IF x < 0 THEN 0 - x ELSE x

RECURSIVE GCD(_, _)
GCD(a, b) == IF b = 0 THEN a ELSE GCD(b, a % b)

Rat(n, m) ==
  LET g == GCD(Abs(n), Abs(m))
      s == IF m < 0 THEN 0 - 1 ELSE 1
  IN  <<(s * n) \div g, (s * m) \div g>>

RInt(n) == <<n, 1>>
RZero == RInt(0)
ROne == RInt(1)
RAdd(a, b) == Rat(a[1] * b[2] + b[1] * a[2], a[2] * b[2])
RSub(a, b) == Rat(a[1] * b[2] - b[1] * a[2], a[2] * b[2])
RMul(a, b) == Rat(a[1] * b[1], a[2] * b[2])
RDiv(a, b) == Rat(a[1] * b[2], a[2] * b[1])
REq(a, b) == a[1] * b[2] = b[1] * a[2]
RPos(a) == a[1] * a[2] > 0

\* an order on tuples of integers: by length, then lexicographic
TupleLess(u, v) ==
  \/ Len(u) < Len(v)
  \/ /\ Len(u) = Len(v)
     /\ \E i \in 1..Len(u) : u[i] < v[i] /\ \A j \in 1..(i - 1) : u[j] = v[j]

\* sum(...) of the values of a table g (a function on a finite set of tuples);
\* the sum is exact, so it is taken by halves of the domain: tuples of one
\* length are split at the middle value of the first coordinate in which they
\* differ, others at their median
RECURSIVE RSumOver(_, _)
RSumOver(g, S) ==
  IF S = {} THEN RZero
  ELSE IF Cardinality(S) = 1 THEN g[CHOOSE v \in S : TRUE]
  ELSE LET a == CHOOSE v \in S : TRUE
       IN  IF \A t \in S : Len(t) = Len(a)
           THEN LET i == CHOOSE j \in 1..Len(a) :
                           /\ \E t \in S : t[j] # a[j]
                           /\ \A k \in 1..(j - 1) : \A t \in S : t[k] = a[k]
                    vals == {t[i] : t \in S}
                    mid == CHOOSE v \in vals :
                             Cardinality({u \in vals : u < v}) = Cardinality(vals) \div 2
                IN  RAdd(RSumOver(g, {t \in S : t[i] < mid}),
                         RSumOver(g, {t \in S : t[i] >= mid}))
           ELSE LET m == CHOOSE v \in S :
                           Cardinality({u \in S : TupleLess(u, v)}) = Cardinality(S) \div 2
                    lower == {u \in S : TupleLess(u, m)}
                IN  RAdd(RSumOver(g, lower), RSumOver(g, S \ lower))

RSum(g) == RSumOver(g, DOMAIN g)

\* sum(ps) and min(ps) of a list of integers
RECURSIVE SumSeq(_)
SumSeq(s) == IF s = <<>> THEN 0 ELSE Head(s) + SumSeq(Tail(s))

MinSeq(s) == CHOOSE m \in {s[i] : i \in 1..Len(s)} : \A i \in 1..Len(s) : m <= s[i]

\* all lists over S of length lo..hi
SeqsOf(S, lo, hi) == UNION {[1..n -> S] : n \in lo..hi}

\* sorted(S) for a finite set of integers
SortedSeq(S) ==
  [i \in 1..Cardinality(S) |-> CHOOSE x \in S : Cardinality({y \in S : y < x}) = i - 1]

(***************************************************************************)
(* drv/pspace.py                                                           *)
(***************************************************************************)
NEG_PROB == "Cannot instantiate PSpace with negative probability."
ZERO_PROB == "Cannot instantiate PSPace with zero-sum probabilities."
EMPTY_MIN == "min() arg is an empty sequence"

\* (mutant of _f_normalize: divides by len(ps) instead of sum(ps))
_f_normalize_bylen(ps) ==
  IF ps = <<>> THEN [ok |-> FALSE, err |-> EMPTY_MIN, ps |-> <<>>]
  ELSE IF MinSeq(ps) < 0 THEN [ok |-> FALSE, err |-> NEG_PROB, ps |-> <<>>]
  ELSE IF SumSeq(ps) = 0 THEN [ok |-> FALSE, err |-> ZERO_PROB, ps |-> <<>>]
  ELSE [ok |-> TRUE, err |-> "",
        ps |-> [i \in 1..Len(ps) |-> RDiv(RInt(ps[i]), RInt(Len(ps)))]]

\* (mutant of _f_normalize: the sum is tested before the minimum)
_f_normalize_sumfirst(ps) ==
  IF ps = <<>> THEN [ok |-> FALSE, err |-> EMPTY_MIN, ps |-> <<>>]
  ELSE IF SumSeq(ps) = 0 THEN [ok |-> FALSE, err |-> ZERO_PROB, ps |-> <<>>]
  ELSE IF MinSeq(ps) < 0 THEN [ok |-> FALSE, err |-> NEG_PROB, ps |-> <<>>]
  ELSE [ok |-> TRUE, err |-> "",
        ps |-> [i \in 1..Len(ps) |-> RDiv(RInt(ps[i]), RInt(SumSeq(ps)))]]

\* _f_normalize(ps): the normalized list, or the ValueError it raises
_f_normalize(ps) ==
  IF ps = <<>> THEN [ok |-> FALSE, err |-> EMPTY_MIN, ps |-> <<>>]
  ELSE IF MinSeq(ps) < 0 THEN [ok |-> FALSE, err |-> NEG_PROB, ps |-> <<>>]
  ELSE LET psum == SumSeq(ps)
       IN  IF psum = 0 THEN [ok |-> FALSE, err |-> ZERO_PROB, ps |-> <<>>]
           ELSE [ok |-> TRUE, err |-> "",
                 ps |-> [i \in 1..Len(ps) |-> RDiv(RInt(ps[i]), RInt(psum))]]

\* a space object: an FDPSpace keeps its normalized ps, a ProductDPSpace the
\* tuple of its component spaces
FDPSpace(nps) == [kind |-> "F", ps |-> nps, pspaces |-> <<>>]

\* (mutant of ProductDPSpace: drops a component already listed)
RECURSIVE Dedup(_)
Dedup(comps) ==
  IF comps = <<>> THEN <<>>
  ELSE LET init == Dedup(SubSeq(comps, 1, Len(comps) - 1))
           x == comps[Len(comps)]
       IN  IF \E i \in 1..Len(init) : init[i] = x THEN init ELSE Append(init, x)

ProductDPSpace_dedup(comps) == [kind |-> "P", ps |-> <<>>, pspaces |-> Dedup(comps)]

ProductDPSpace(comps) == [kind |-> "P", ps |-> <<>>, pspaces |-> comps]

\* the pspaces property: (self,) for a DPSpace, the components of a product
PSpacesOf(H, s) == IF H[s].kind = "F" THEN <<s>> ELSE H[s].pspaces

\* FDPSpace.p(w): self.ps[w], 0 on IndexError (a negative index counts from
\* the end, as tuple indexing does)
FDPSpace_p(H, s, w) ==
  LET n == Len(H[s].ps)
  IN  IF 0 <= w /\ w < n THEN H[s].ps[w + 1]
      ELSE IF 0 - n <= w /\ w < 0 THEN H[s].ps[w + n + 1]
      ELSE RZero

RECURSIVE RProdSeq(_)
RProdSeq(s) == IF s = <<>> THEN ROne ELSE RMul(Head(s), RProdSeq(Tail(s)))

\* ProductDPSpace.p(ws...): 0 unless one coordinate per component, else the
\* product of the components' p, each called with its one coordinate
\* (mutant of ProductDPSpace_p: adds the components' probabilities)
RECURSIVE ProductDPSpace_p_sum(_, _, _)
ProductDPSpace_p_sum(H, s, ws) ==
  LET comps == H[s].pspaces
  IN  IF Len(ws) # Len(comps) THEN RZero
      ELSE RSum([i \in {<<j>> : j \in 1..Len(comps)} |->
             IF H[comps[i[1]]].kind = "F" THEN FDPSpace_p(H, comps[i[1]], ws[i[1]])
             ELSE ProductDPSpace_p_sum(H, comps[i[1]], <<ws[i[1]]>>)])

RECURSIVE ProductDPSpace_p(_, _, _)
ProductDPSpace_p(H, s, ws) ==
  LET comps == H[s].pspaces
  IN  IF Len(ws) # Len(comps) THEN RZero
      ELSE RProdSeq([i \in 1..Len(comps) |->
             IF H[comps[i]].kind = "F" THEN FDPSpace_p(H, comps[i], ws[i])
             ELSE ProductDPSpace_p(H, comps[i], <<ws[i]>>)])

\* space.p(w...) for an outcome tuple w, as integrate calls it
p(H, s, w) ==
  IF H[s].kind = "F" THEN FDPSpace_p(H, s, w[1]) ELSE ProductDPSpace_p(H, s, w)

\* The Omega property: 1-tuples of an FDPSpace; for a product the flattened
\* concatenation sum(wt, ()) of one outcome tuple per component
RECURSIVE Omega(_, _)
RECURSIVE OmegaCat(_, _)
OmegaCat(H, comps) ==
  IF comps = <<>> THEN {<<>>}
  ELSE {a \o b : a \in Omega(H, Head(comps)), b \in OmegaCat(H, Tail(comps))}

Omega(H, s) ==
  IF H[s].kind = "F" THEN {<<w>> : w \in 0..(Len(H[s].ps) - 1)}
  ELSE OmegaCat(H, H[s].pspaces)

\* (mutant of integrate: the values of func are summed without their weights)
integrate_unweighted(H, s, func) == RSum([w \in Omega(H, s) |-> func[w]])

\* integrate(func): sum(func(w...) * self.p(w...) for w in self.Omega); func is
\* given as its table over Omega
integrate(H, s, func) == RSum([w \in Omega(H, s) |-> RMul(func[w], p(H, s, w))])

(***************************************************************************)
(* Inputs.                                                                 *)
(***************************************************************************)
Weights == (0 - 1)..MaxWeight
WeightLists == SeqsOf(Weights, 0, MaxLen)

\* the data sets the product-space operations are run on
fdata == {<<1, 2>>, <<2, 0, 2>>, <<1>>, <<0, 0>>, <<0 - 1, 1>>}

NoResult == [op |-> "none", args |-> <<>>, ok |-> TRUE, out |-> 0, err |-> ""]
Result(o, a, id) == [op |-> o, args |-> a, ok |-> TRUE, out |-> id, err |-> ""]
Raised(o, a, e) == [op |-> o, args |-> a, ok |-> FALSE, out |-> 0, err |-> e]

(***************************************************************************)
(* The constructors FDPSpace(ps) and ProductDPSpace(pspaces...).           *)
(***************************************************************************)
NewFDPSpace(ps) ==
  LET r == _f_normalize(ps)
  IN  /\ Len(pspaces) < MaxSpaces
      /\ IF r.ok
         THEN /\ pspaces' = Append(pspaces, FDPSpace(r.ps))
              /\ last' = Result("FDPSpace", ps, Len(pspaces) + 1)
         ELSE /\ pspaces' = pspaces
              /\ last' = Raised("FDPSpace", ps, r.err)
      /\ UNCHANGED <<rvs, drvs, arg, _pool_cache, stack, pc, pool, opr, d, todo>>

NewProductDPSpace(comps) ==
  /\ Len(pspaces) < MaxSpaces
  /\ pspaces' = Append(pspaces, ProductDPSpace(comps))
  /\ last' = Result("ProductDPSpace", comps, Len(pspaces) + 1)
  /\ UNCHANGED <<rvs, drvs, arg, _pool_cache, stack, pc, pool, opr, d, todo>>

Idle ==
  /\ rvs = <<>> /\ drvs = <<>> /\ pc = "idle" /\ pool = <<>> /\ opr = ""
  /\ d = <<>> /\ todo = <<>> /\ _pool_cache = <<>> /\ stack = <<>>

\* SpecF: one FDPSpace built from an arbitrary weight list
InitF == pspaces = <<>> /\ arg \in WeightLists /\ last = NoResult /\ Idle
NextF == pspaces = <<>> /\ last.op = "none" /\ NewFDPSpace(arg)
SpecF == InitF /\ [][NextF]_vars

\* SpecP: spaces built by the two constructors, products over any existing
\* spaces (none, one, or two; repeated and nested ones included)
InitP == pspaces = <<>> /\ arg = <<>> /\ last = NoResult /\ Idle
NextP ==
  \/ \E ps \in fdata : NewFDPSpace(ps)
  \/ \E comps \in SeqsOf(1..Len(pspaces), 0, 2) : NewProductDPSpace(comps)
SpecP == InitP /\ [][NextP]_vars

(***************************************************************************)
(* drv/rv.py and drv/real.py: random variables over the spaces.            *)
(***************************************************************************)
MaxRVs == 3

RECURSIVE RPow(_, _)
RPow(a, n) == IF n = 0 THEN ROne ELSE RMul(a, RPow(a, n - 1))

\* (mutant of SameKey: spaces compare by value, equal weights are one key)
SameKey_byvalue(H, s, t) == H[s] = H[t]

\* DPSpace defines neither __eq__ nor __hash__: as members of a frozenset and
\* as keys of a dict, two spaces are the same key only if the same object
SameKey(H, s, t) == s = t

\* frozenset(seq): the members of seq, one per key
frozenset(H, seq) ==
  {seq[i] : i \in {j \in 1..Len(seq) :
                     \A k \in 1..(j - 1) : ~SameKey(H, seq[k], seq[j])}}

\* the orders in which a frozenset may be iterated
Orders(S) ==
  {q \in [1..Cardinality(S) -> S] :
     \A i, j \in 1..Cardinality(S) : i # j => q[i] # q[j]}

\* dict(zip(keys, ks)): for each key the coordinate zipped with it last
DictZip(H, keys, ks) ==
  LET n == IF Len(keys) < Len(ks) THEN Len(keys) ELSE Len(ks)
      slot(k) == CHOOSE i \in 1..n :
                   /\ SameKey(H, keys[i], k)
                   /\ \A j \in (i + 1)..n : ~SameKey(H, keys[j], k)
  IN  [k \in frozenset(H, SubSeq(keys, 1, n)) |-> ks[slot(k)]]

HasKey(H, sample, k) == \E x \in DOMAIN sample : SameKey(H, x, k)
Lookup(H, sample, k) == sample[CHOOSE x \in DOMAIN sample : SameKey(H, x, k)]

\* the func of a random variable: a polynomial c[1] + c[2] w + c[3] w^2 of the
\* outcome w of a finite space, or the closure binop builds over a and b
PolyFunc(c) == [kind |-> "poly", c |-> c, op |-> "", a |-> 0, b |-> 0]
BinFunc(o, x, y) == [kind |-> "bin", c |-> <<>>, op |-> o, a |-> x, b |-> y]

\* function(self.func) as map builds it over the func of x: op.abs or op.neg,
\* or the lambda that binop makes of a scalar, operator(x, other) or, with
\* b = 1 (reverse), operator(other, x)
MapFunc(o, x, other, reverse) ==
  [kind |-> "map", c |-> other, op |-> o, a |-> x, b |-> IF reverse THEN 1 ELSE 0]

\* lambda x: float(value) of degenerate_rdrv
ConstFunc(value) == [kind |-> "const", c |-> <<value>>, op |-> "", a |-> 0, b |-> 0]

\* lambda w: ks[w] of flatten
TableFunc(ks) == [kind |-> "table", c |-> ks, op |-> "", a |-> 0, b |-> 0]

\* DRV.__init__ / FDRV.__init__: a random variable object
RDRV(s, f) == [pspace |-> s, func |-> f]

\* (mutant of op_add: the wrong operator is handed to binop)
op_add_mul == "mul"

\* the operator RDRV.add hands to binop
op_add == "add"

\* operator(x, y) for the operators of the operator module; op.abs and op.neg
\* take x alone
ApplyOp(o, x, y) ==
  CASE o = "add" -> x + y
    [] o = "mul" -> x * y
    [] o = "sub" -> x - y
    [] o = "le" -> IF x <= y THEN 1 ELSE 0
    [] o = "abs" -> IF x < 0 THEN 0 - x ELSE x
    [] o = "neg" -> 0 - x

\* r.func(ks...) and r.sfunc(sample); for the closure of binop, sample is
\* dict(zip(pspace.pspaces, ks)) and the value is
\* operator(a.sfunc(sample), b.sfunc(sample))
RECURSIVE Func(_, _, _, _)
RECURSIVE sfunc(_, _, _, _)
\* (mutant of sfunc: every coordinate is read from the first space of the
\* sample, whichever spaces the random variable is over)
sfunc_first(H, RV, r, sample) ==
  LET own == PSpacesOf(H, RV[r].pspace)
      k0 == CHOOSE k \in DOMAIN sample : \A j \in DOMAIN sample : k <= j
  IN  Func(H, RV, r, [i \in 1..Len(own) |-> sample[k0]])

Func(H, RV, r, ks) ==
  LET f == RV[r].func
  IN  CASE f.kind = "poly" ->
             f.c[1] + f.c[2] * ks[1] + f.c[3] * ks[1] * ks[1]
        [] f.kind = "const" -> f.c[1]
        [] f.kind = "table" -> f.c[ks[1] + 1]
        [] f.kind = "map" ->
             LET v == Func(H, RV, f.a, ks)
             IN  IF f.c = <<>> THEN ApplyOp(f.op, v, v)
                 ELSE IF f.b = 1 THEN ApplyOp(f.op, f.c[1], v)
                 ELSE ApplyOp(f.op, v, f.c[1])
        [] f.kind = "bin" ->
             LET sample == DictZip(H, H[RV[r].pspace].pspaces, ks)
             IN  ApplyOp(f.op, sfunc(H, RV, f.a, sample), sfunc(H, RV, f.b, sample))

sfunc(H, RV, r, sample) ==
  LET own == PSpacesOf(H, RV[r].pspace)
  IN  Func(H, RV, r, [i \in 1..Len(own) |-> Lookup(H, sample, own[i])])

\* whether r.func(ks...) / r.sfunc(sample) raises ValueError: a closure of
\* binop given a wrong number of coordinates, or a sample that lacks one of
\* the coordinates of r's space ("Missing coordinates.")
RECURSIVE FuncRaises(_, _, _, _)
RECURSIVE sfuncRaises(_, _, _, _)
FuncRaises(H, RV, r, ks) ==
  LET f == RV[r].func
  IN  \/ /\ f.kind = "map"
         /\ FuncRaises(H, RV, f.a, ks)
      \/ /\ f.kind = "bin"
         /\ \/ Len(ks) # Len(H[RV[r].pspace].pspaces)
            \/ LET sample == DictZip(H, H[RV[r].pspace].pspaces, ks)
               IN  sfuncRaises(H, RV, f.a, sample) \/ sfuncRaises(H, RV, f.b, sample)

sfuncRaises(H, RV, r, sample) ==
  LET own == PSpacesOf(H, RV[r].pspace)
  IN  \/ \E i \in 1..Len(own) : ~HasKey(H, sample, own[i])
      \/ FuncRaises(H, RV, r, [i \in 1..Len(own) |-> Lookup(H, sample, own[i])])

\* _moment_func(n, c, s): x -> ((func(x) - c) / s) ** n, as a table over Omega
_moment_func(H, RV, r, n, c, s) ==
  [w \in Omega(H, RV[r].pspace) |->
     RPow(RDiv(RSub(RInt(Func(H, RV, r, w)), c), s), n)]

moment(H, RV, r, n) == integrate(H, RV[r].pspace, _moment_func(H, RV, r, n, RZero, ROne))
mean(H, RV, r) == moment(H, RV, r, 1)
central_moment(H, RV, r, n) ==
  integrate(H, RV[r].pspace, _moment_func(H, RV, r, n, mean(H, RV, r), ROne))
variance(H, RV, r) == central_moment(H, RV, r, 2)

\* indicator(k)(func) of drv/functions.py: 1 where func is k, else 0; func
\* and the result are tables over Omega
indicator(k, func) == [w \in DOMAIN func |-> IF func[w] = k THEN ROne ELSE RZero]

\* (mutant of pmf: the indicator of func <= k is integrated)
pmf_upto(H, RV, r, k) ==
  integrate(H, RV[r].pspace,
            [w \in Omega(H, RV[r].pspace) |->
               IF Func(H, RV, r, w) <= k THEN ROne ELSE RZero])

\* DRV.pmf(k): self.pspace.integrate(indicator(k)(self.func))
pmf(H, RV, r, k) ==
  integrate(H, RV[r].pspace,
            indicator(k, [w \in Omega(H, RV[r].pspace) |-> Func(H, RV, r, w)]))

\* pspace.symbols: one symbol for each coordinate of an outcome of the space,
\* here the coordinate's position
symbols(H, s) == [i \in 1..Len(PSpacesOf(H, s)) |-> i]

\* DRV.eval(sample): self.func.subs(zip(*sample)) for sample = (symbols,
\* outcomes): func with each symbol replaced by the outcome zipped with it
eval(H, RV, r, sample) ==
  LET n == IF Len(sample[1]) < Len(sample[2]) THEN Len(sample[1]) ELSE Len(sample[2])
      at(i) == sample[2][CHOOSE j \in 1..n : sample[1][j] = i]
  IN  Func(H, RV, r, [i \in 1..n |-> at(i)])

\* (mutant of support: outcomes of probability 0 are not left out)
support_all(H, RV, r) ==
  {eval(H, RV, r, <<symbols(H, RV[r].pspace), w>>) : w \in Omega(H, RV[r].pspace)}

\* FDRV.support: the values eval gives on the outcomes w with p(w) > 0
support(H, RV, r) ==
  {eval(H, RV, r, <<symbols(H, RV[r].pspace), w>>) :
     w \in {u \in Omega(H, RV[r].pspace) : RPos(p(H, RV[r].pspace, u))}}

\* FRDRV.max and FRDRV.min: max(self.support), min(self.support)
FRDRV_max(H, RV, r) ==
  CHOOSE m \in support(H, RV, r) : \A v \in support(H, RV, r) : m >= v
FRDRV_min(H, RV, r) ==
  CHOOSE m \in support(H, RV, r) : \A v \in support(H, RV, r) : m <= v

\* the (weights, func) pairs random variables are built from; the first is
\* the identity over a space with outcomes of weight 0 at both ends, the
\* fourth a six-sided die
rvdata ==
  { <<<<0, 1, 2, 0>>, <<0, 1, 0>>>>,
    <<<<1, 1, 2>>, <<1, 0 - 2, 1>>>>,
    <<<<1>>, <<7, 0, 0>>>>,
    <<<<1, 1, 1, 1, 1, 1>>, <<1, 1, 0>>>>,
    <<<<0, 0>>, <<0, 1, 0>>>> }

\* fp = FDPSpace(ps); FRDRV(name, fp, func): a random variable over a space
\* of its own
NewFRDRV(ps, c) ==
  LET r == _f_normalize(ps)
  IN  /\ Len(rvs) < MaxRVs
      /\ IF r.ok
         THEN /\ pspaces' = Append(pspaces, FDPSpace(r.ps))
              /\ rvs' = Append(rvs, RDRV(Len(pspaces) + 1, PolyFunc(c)))
              /\ last' = Result("FRDRV", ps, Len(rvs) + 1)
         ELSE /\ UNCHANGED <<pspaces, rvs>>
              /\ last' = Raised("FRDRV", ps, r.err)
      /\ UNCHANGED <<drvs, arg, _pool_cache, stack, pc, pool, opr, d, todo>>

\* RDRV.binop(other, operator, name) for a random variable other: the product
\* of the frozenset of both operands' spaces, and the closure over it; name is
\* the format of the result's name
binop(x, y, o, name) ==
  /\ Len(rvs) < MaxRVs
  /\ \E order \in Orders(frozenset(pspaces, PSpacesOf(pspaces, rvs[x].pspace)
                                           \o PSpacesOf(pspaces, rvs[y].pspace))) :
       /\ pspaces' = Append(pspaces, ProductDPSpace(order))
       /\ rvs' = Append(rvs, RDRV(Len(pspaces) + 1, BinFunc(o, x, y)))
       /\ last' = Result(name, <<x, y>>, Len(rvs) + 1)
  /\ UNCHANGED <<drvs, arg, _pool_cache, stack, pc, pool, opr, d, todo>>

\* RDRV.add(other, name): a random variable other is never falsy, so there is
\* no shortcut
add(x, y, name) == binop(x, y, op_add, name)

\* X + Y
__add__(x, y) == add(x, y, "({0})+({1})")

InitR == pspaces = <<>> /\ arg = <<>> /\ last = NoResult /\ Idle
NextR ==
  \/ \E e \in rvdata : NewFRDRV(e[1], e[2])
  \/ \E x, y \in 1..Len(rvs) : __add__(x, y)
SpecR == InitR /\ [][NextR]_vars

(***************************************************************************)
(* drv/real.py and drv/rv.py: the operations on random variables, as       *)
(* functions of the objects W = [H |-> spaces, RV |-> random variables]    *)
(* that exist when they are called.  Each gives the objects that exist     *)
(* afterwards and the object returned, or the exception raised.            *)
(***************************************************************************)
Ret(W, id) == [ok |-> TRUE, err |-> "", W |-> W, id |-> id]
Raise(W, e) == [ok |-> FALSE, err |-> e, W |-> W, id |-> 0]

\* an operand that is a Python int, and one that is a random variable
IntArg(n) == <<"int", n>>
RVArg(y) == <<"rv", y>>

\* klass(name, pspace, func): a new random variable over the space s
klass(W, s, f) ==
  Ret([W EXCEPT !.RV = Append(@, RDRV(s, f))], Len(W.RV) + 1)

\* FRDRV(name, FDPSpace(ps), func) for a valid weight list ps
FRDRV(W, ps, c) ==
  klass([W EXCEPT !.H = Append(@, FDPSpace(_f_normalize(ps).ps))],
        Len(W.H) + 1, PolyFunc(c))

\* DRV.map(function, name): func = function(self.func), over self's space
RDRV_map(W, x, o, other, reverse) ==
  klass(W, W.RV[x].pspace, MapFunc(o, x, other, reverse))

\* RDRV.unop(operator, name): an alias for map
RDRV_unop(W, x, o, other, reverse) == RDRV_map(W, x, o, other, reverse)

\* frozenset(self.pspace.pspaces + other.pspace.pspaces) in binop; nothing to
\* iterate for a scalar operand
binop_pspaces(W, x, other) ==
  IF other[1] = "int" THEN {}
  ELSE frozenset(W.H, PSpacesOf(W.H, W.RV[x].pspace)
                      \o PSpacesOf(W.H, W.RV[other[2]].pspace))

\* RDRV.binop(other, operator, name, reverse): unop of the lambda for a scalar
\* other; else the closure over the product of the frozenset of both
\* operands' spaces, iterated in the order given
RDRV_binop(W, x, other, o, reverse, order) ==
  IF other[1] = "int" THEN RDRV_unop(W, x, o, <<other[2]>>, reverse)
  ELSE LET a == IF reverse THEN other[2] ELSE x
           b == IF reverse THEN x ELSE other[2]
       IN  klass([W EXCEPT !.H = Append(@, ProductDPSpace(order))],
                 Len(W.H) + 1, BinFunc(o, a, b))

\* degenerate_rdrv(value): DegenerateRDRV(str(value), DegeneratePSpace(),
\* lambda x: float(value)); the space is FDPSpace([1.0])
degenerate_rdrv(W, value) ==
  klass([W EXCEPT !.H = Append(@, FDPSpace(<<ROne>>))],
        Len(W.H) + 1, ConstFunc(value))

\* other is self
is_self(x, other) == other = RVArg(x)

\* not other: a scalar 0 is falsy, a random variable never is
falsy(other) == other = IntArg(0)

RDRV_abs(W, x) == RDRV_unop(W, x, "abs", <<>>, FALSE)
RDRV_neg(W, x) == RDRV_unop(W, x, "neg", <<>>, FALSE)

\* RDRV.add(other, name)
RDRV_add(W, x, other, order) ==
  IF falsy(other) THEN Ret(W, x)
  ELSE RDRV_binop(W, x, other, op_add, FALSE, order)

\* (mutant of RDRV_mul: multiplying by 1 does nothing, as in __rmul__)
RDRV_mul_shortcut(W, x, other, order) ==
  IF other = IntArg(1) THEN Ret(W, x)
  ELSE RDRV_binop(W, x, other, "mul", FALSE, order)

\* RDRV.mul(other, name)
RDRV_mul(W, x, other, order) == RDRV_binop(W, x, other, "mul", FALSE, order)

\* FRDRV.__radd__(other) and FRDRV.__rmul__(other)
FRDRV__radd__(W, x, other, order) ==
  IF other = IntArg(0) THEN Ret(W, x)
  ELSE RDRV_binop(W, x, other, op_add, TRUE, order)

FRDRV__rmul__(W, x, other, order) ==
  IF other = IntArg(1) THEN Ret(W, x)
  ELSE RDRV_binop(W, x, other, "mul", TRUE, order)

\* The methods with a shortcut for other is self; without it each hands its
\* operator to binop.
RDRV_and_(W, x, other, order) ==
  IF is_self(x, other) THEN Ret(W, x)
  ELSE RDRV_binop(W, x, other, "min", FALSE, order)

RDRV_compare(W, x, other, order) ==
  IF is_self(x, other) THEN degenerate_rdrv(W, 0)
  ELSE RDRV_binop(W, x, other, "cmp", FALSE, order)

RDRV_div(W, x, other, order) ==
  IF is_self(x, other)
  THEN IF RPos(pmf(W.H, W.RV, x, 0)) THEN Raise(W, "ZeroDivisionError")
       ELSE degenerate_rdrv(W, 1)
  ELSE RDRV_binop(W, x, other, "truediv", FALSE, order)

RDRV_eq(W, x, other, order) ==
  IF is_self(x, other) THEN degenerate_rdrv(W, 1)
  ELSE RDRV_binop(W, x, other, "eq", FALSE, order)

RDRV_floordiv(W, x, other, order) ==
  IF is_self(x, other)
  THEN IF RPos(pmf(W.H, W.RV, x, 0)) THEN Raise(W, "ZeroDivisionError")
       ELSE degenerate_rdrv(W, 1)
  ELSE RDRV_binop(W, x, other, "floordiv", FALSE, order)

RDRV_ge(W, x, other, order) ==
  IF is_self(x, other) THEN degenerate_rdrv(W, 1)
  ELSE RDRV_binop(W, x, other, "ge", FALSE, order)

RDRV_gt(W, x, other, order) ==
  IF is_self(x, other) THEN degenerate_rdrv(W, 0)
  ELSE RDRV_binop(W, x, other, "gt", FALSE, order)

RDRV_le(W, x, other, order) ==
  IF is_self(x, other) THEN degenerate_rdrv(W, 1)
  ELSE RDRV_binop(W, x, other, "le", FALSE, order)

RDRV_lt(W, x, other, order) ==
  IF is_self(x, other) THEN degenerate_rdrv(W, 0)
  ELSE RDRV_binop(W, x, other, "lt", FALSE, order)

\* RDRV.mod(other, name): the shortcut does not look at pmf(0)
RDRV_mod(W, x, other, order) ==
  IF is_self(x, other) THEN degenerate_rdrv(W, 0)
  ELSE RDRV_binop(W, x, other, "mod", FALSE, order)

RDRV_ne(W, x, other, order) ==
  IF is_self(x, other) THEN degenerate_rdrv(W, 0)
  ELSE RDRV_binop(W, x, other, "ne", FALSE, order)

RDRV_or_(W, x, other, order) ==
  IF is_self(x, other) THEN Ret(W, x)
  ELSE RDRV_binop(W, x, other, "max", FALSE, order)

RDRV_sub(W, x, other, order) ==
  IF is_self(x, other) THEN degenerate_rdrv(W, 0)
  ELSE RDRV_binop(W, x, other, "sub", FALSE, order)

\* __and__(self, other, name) and __ge__(self, other, name) take a second
\* argument that the operators & and >= do not pass
RDRV__and__(W, x, other, order) == Raise(W, "TypeError")
RDRV__ge__(W, x, other, order) == Raise(W, "TypeError")

\* X sym other for the operators of Python, each through its __method__;
\* "compare" is the call X.compare(other, name), n sym X for a scalar n goes
\* to __radd__ or __rmul__
Operate(W, x, sym, other, order) ==
  CASE sym = "+" -> RDRV_add(W, x, other, order)
    [] sym = "&" -> RDRV__and__(W, x, other, order)
    [] sym = "compare" -> RDRV_compare(W, x, other, order)
    [] sym = "/" -> RDRV_div(W, x, other, order)
    [] sym = "==" -> RDRV_eq(W, x, other, order)
    [] sym = "//" -> RDRV_floordiv(W, x, other, order)
    [] sym = ">=" -> RDRV__ge__(W, x, other, order)
    [] sym = ">" -> RDRV_gt(W, x, other, order)
    [] sym = "<=" -> RDRV_le(W, x, other, order)
    [] sym = "<" -> RDRV_lt(W, x, other, order)
    [] sym = "%" -> RDRV_mod(W, x, other, order)
    [] sym = "*" -> RDRV_mul(W, x, other, order)
    [] sym = "!=" -> RDRV_ne(W, x, other, order)
    [] sym = "|" -> RDRV_or_(W, x, other, order)
    [] sym = "-" -> RDRV_sub(W, x, other, order)
    [] sym = "r+" -> FRDRV__radd__(W, x, other, order)
    [] sym = "r*" -> FRDRV__rmul__(W, x, other, order)

\* _f_normalize(ps) for a list of probabilities, each of them positive
_f_normalize_probs(ps) ==
  LET psum == RSum([i \in {<<j>> : j \in 1..Len(ps)} |-> ps[i[1]]])
  IN  [i \in 1..Len(ps) |-> RDiv(ps[i], psum)]

\* (mutant of flatten: every value of the support is given the same weight)
flatten_uniform(W, x) ==
  LET ks == SortedSeq(support(W.H, W.RV, x))
      ps == [i \in 1..Len(ks) |-> ROne]
  IN  klass([W EXCEPT !.H = Append(@, FDPSpace(_f_normalize_probs(ps)))],
            Len(W.H) + 1, TableFunc(ks))

\* FDRV.flatten(): ks = sorted(self.support), ps = [self.pmf(k) for k in ks],
\* a new FDPSpace(ps) and func = lambda w: ks[w]
flatten(W, x) ==
  LET ks == SortedSeq(support(W.H, W.RV, x))
      ps == [i \in 1..Len(ks) |-> pmf(W.H, W.RV, x, ks[i])]
  IN  klass([W EXCEPT !.H = Append(@, FDPSpace(_f_normalize_probs(ps)))],
            Len(W.H) + 1, TableFunc(ks))

\* RDRV.cdf(k): integrate calls cumulative on the first outcome of the space,
\* and cumulative looks up indicator, a name that drv/real.py neither defines
\* nor imports
RDRV_cdf(W, x, k) ==
  IF Omega(W.H, W.RV[x].pspace) = {} THEN [ok |-> TRUE, err |-> "", val |-> RZero]
  ELSE [ok |-> FALSE, err |-> "NameError", val |-> RZero]

(***************************************************************************)
(* SpecA: one call of an operation of drv/real.py or drv/rv.py on random   *)
(* variables built for it.  arg keeps the objects that exist before the    *)
(* call, pspaces and rvs those that exist after it.                        *)
(***************************************************************************)
\* the (weights, func) pairs of the leaves: values -1, 0, 1; values 1, 2; the
\* identity over a space with outcomes of weight 0 at both ends (the value 0
\* is taken with probability 0); (w - 1)^2 with values 1, 0, 1
adata ==
  { <<<<1, 2, 1>>, <<0 - 1, 1, 0>>>>,
    <<<<1, 1>>, <<1, 1, 0>>>>,
    <<<<0, 1, 2, 0>>, <<0, 1, 0>>>>,
    <<<<1, 1, 2>>, <<1, 0 - 2, 1>>>> }

\* how the operand X is made of leaves: a leaf, |leaf|, -leaf, or the sum of
\* two leaves over spaces of their own
Shapes == {"leaf", "abs", "neg", "sum"}
GivenOrders(sh) == IF sh = "sum" THEN Orders({1, 2}) ELSE {<<>>}

NoHeap == [H |-> <<>>, RV |-> <<>>]

Given(e, sh, order) ==
  LET leaf == FRDRV(NoHeap, e[1], e[2])
  IN  CASE sh = "leaf" -> leaf
        [] sh = "abs" -> RDRV_abs(leaf.W, leaf.id)
        [] sh = "neg" -> RDRV_neg(leaf.W, leaf.id)
        [] sh = "sum" ->
             LET two == FRDRV(leaf.W, e[1], e[2])
             IN  RDRV_add(two.W, leaf.id, RVArg(two.id), order)

\* the operations with a rule for other is self
SelfSyms ==
  {"-", "compare", "<", ">", "!=", "==", "<=", ">=", "&", "|", "/", "//", "%"}

\* the operators with a scalar on either side, and the scalars
ScalarSyms == {"+", "r+", "*", "r*"}
Scalars == {0, 1, 2}

\* the arguments of cdf
CdfArgs == (0 - 3)..5

\* the call has not been made
Before == last.op = "none" /\ rvs = <<>> /\ pspaces = <<>>

\* what a call leaves behind
After(W0, label, a, r) ==
  /\ arg' = W0
  /\ pspaces' = r.W.H
  /\ rvs' = r.W.RV
  /\ last' = IF r.ok THEN Result(label, a, r.id) ELSE Raised(label, a, r.err)
  /\ UNCHANGED <<drvs, _pool_cache, stack, pc, pool, opr, d, todo>>

\* X sym X
Call_self(e, sh, sym) ==
  /\ Before
  /\ \E o \in GivenOrders(sh) :
       LET g == Given(e, sh, o)
       IN  After(g.W, sym, <<g.id, RVArg(g.id)>>,
                 Operate(g.W, g.id, sym, RVArg(g.id), <<>>))

\* X + n, n + X, X * n, n * X
Call_scalar(e, sh, sym, n) ==
  /\ Before
  /\ \E o \in GivenOrders(sh) :
       LET g == Given(e, sh, o)
       IN  After(g.W, sym, <<g.id, IntArg(n)>>,
                 Operate(g.W, g.id, sym, IntArg(n), <<>>))

\* X.cdf(k)
Call_cdf(e, sh, k) ==
  /\ Before
  /\ \E o \in GivenOrders(sh) :
       LET g == Given(e, sh, o)
           r == RDRV_cdf(g.W, g.id, k)
       IN  /\ arg' = g.W
           /\ pspaces' = g.W.H
           /\ rvs' = g.W.RV
           /\ last' = IF r.ok THEN Result("cdf", <<g.id, k>>, r.val)
                      ELSE Raised("cdf", <<g.id, k>>, r.err)
           /\ UNCHANGED <<drvs, _pool_cache, stack, pc, pool, opr, d, todo>>

\* X.flatten(), and X.flatten().flatten()
Call_flatten(e, sh, again) ==
  /\ Before
  /\ \E o \in GivenOrders(sh) :
       LET g == Given(e, sh, o)
           f == flatten(g.W, g.id)
       IN  IF again
           THEN After(f.W, "flatten.flatten", <<g.id>>, flatten(f.W, f.id))
           ELSE After(g.W, "flatten", <<g.id>>, f)

\* abs_r = abs(r); -abs_r <= r; r <= abs_r, for r over a finite space
test_abs_properties(e, sh) ==
  /\ Before
  /\ \E o \in GivenOrders(sh) :
       LET g == Given(e, sh, o)
           abs_r == RDRV_abs(g.W, g.id)
           minus == RDRV_neg(abs_r.W, abs_r.id)
           S == binop_pspaces(minus.W, g.id, RVArg(abs_r.id))
       IN  \E o1, o2 \in Orders(S) :
             LET lower == RDRV_le(minus.W, minus.id, RVArg(g.id), o1)
                 upper == RDRV_le(lower.W, g.id, RVArg(abs_r.id), o2)
             IN  After(g.W, "test_abs_properties", <<g.id, lower.id>>, upper)

\* Z = (X + Y) - X, for leaves X and Y over spaces of their own
Call_sum_minus(e1, e2) ==
  /\ Before
  /\ LET X == FRDRV(NoHeap, e1[1], e1[2])
         Y == FRDRV(X.W, e2[1], e2[2])
     IN  \E o1, o2 \in Orders({1, 2}) :
           LET XY == RDRV_add(Y.W, X.id, RVArg(Y.id), o1)
           IN  After(Y.W, "sum_minus", <<X.id, Y.id, XY.id>>,
                     RDRV_sub(XY.W, XY.id, RVArg(X.id), o2))

\* X.sfunc(sample) for a sample with a coordinate for each space of keys,
\* where X is over the first of two spaces; the coordinate of a space is its
\* second outcome
Call_sfunc(e1, e2, keys) ==
  /\ Before
  /\ LET X == FRDRV(NoHeap, e1[1], e1[2])
         Y == FRDRV(X.W, e2[1], e2[2])
         sample == [k \in keys |-> 1]
     IN  /\ arg' = Y.W
         /\ pspaces' = Y.W.H
         /\ rvs' = Y.W.RV
         /\ last' = IF sfuncRaises(Y.W.H, Y.W.RV, X.id, sample)
                    THEN Raised("sfunc", <<X.id, keys>>, "ValueError")
                    ELSE Result("sfunc", <<X.id, keys>>,
                                sfunc(Y.W.H, Y.W.RV, X.id, sample))
         /\ UNCHANGED <<drvs, _pool_cache, stack, pc, pool, opr, d, todo>>

InitA == pspaces = <<>> /\ arg = <<>> /\ last = NoResult /\ Idle
NextA ==
  \/ \E e \in adata, sh \in Shapes, sym \in SelfSyms : Call_self(e, sh, sym)
  \/ \E e \in adata, sh \in Shapes, sym \in ScalarSyms, n \in Scalars :
       Call_scalar(e, sh, sym, n)
  \/ \E e \in adata, sh \in Shapes, k \in CdfArgs : Call_cdf(e, sh, k)
  \/ \E e \in adata, sh \in Shapes, again \in BOOLEAN : Call_flatten(e, sh, again)
  \/ \E e \in adata, sh \in Shapes : test_abs_properties(e, sh)
  \/ \E e1, e2 \in adata : Call_sum_minus(e1, e2)
  \/ \E e1, e2 \in adata, keys \in SUBSET {1, 2} : Call_sfunc(e1, e2, keys)
SpecA == InitA /\ [][NextA]_vars

(***************************************************************************)
(* drv/core.py and drv.py: integer random variables, pools and operators.  *)
(* The floats of numpy are kept as exact rationals.                        *)
(***************************************************************************)
MaxDRVs == 2

\* d[k] += v on a defaultdict(float)
DictAdd(dict, k, v) ==
  [x \in DOMAIN dict \cup {k} |->
     IF x # k THEN dict[x]
     ELSE IF k \in DOMAIN dict THEN RAdd(dict[k], v) ELSE RAdd(RZero, v)]

\* no random variable
NoDRV == [name |-> "", dist |-> <<>>]

\* DiscreteRandomVariable._initialize_with_xp(name, xs, ps): the test ps > 0
\* compares the list ps with 0 and holds for every pair, so no pair is
\* removed; equal values are aggregated and the weights divided by their sum;
\* rv_discrete keeps the values with their probabilities
_initialize_with_xp(name, xs, ps) ==
  LET n == IF Len(xs) < Len(ps) THEN Len(xs) ELSE Len(ps)
      keys == {xs[i] : i \in 1..n}
      ag == [x \in keys |-> RSum([i \in {<<j>> : j \in {k \in 1..n : xs[k] = x}} |-> ps[i[1]]])]
      total == RSum([x \in {<<k>> : k \in keys} |-> ag[x[1]]])
  IN  IF n = 0 THEN [ok |-> FALSE, err |-> "ValueError", drv |-> NoDRV]
      ELSE IF total[1] = 0 THEN [ok |-> FALSE, err |-> "nan", drv |-> NoDRV]
      ELSE [ok |-> TRUE, err |-> "",
            drv |-> [name |-> name, dist |-> [x \in keys |-> RDiv(ag[x], total)]]]

\* DiscreteRandomVariable(name, xs=xs, ps=ps)
DiscreteRandomVariable(name, xs, ps) == _initialize_with_xp(name, xs, ps)

\* constant(n)
constant(n) == DiscreteRandomVariable(ToString(n), <<n>>, <<ROne>>).drv

\* dk(k): DRV("1d{k}", rv=ss.randint(1, k + 1)), the values 1..k with pmf 1/k
dk(k) ==
  DiscreteRandomVariable("1d" \o ToString(k), [i \in 1..k |-> i],
                         [i \in 1..k |-> Rat(1, k)]).drv

\* drv.values: zip(xk, pk), the values in increasing order as rv_discrete
\* keeps them
values(drv) ==
  LET xk == SortedSeq(DOMAIN drv.dist)
  IN  [i \in 1..Len(xk) |-> <<xk[i], drv.dist[xk[i]]>>]

\* it.product(lists...): the tuples in the order itertools yields them
RECURSIVE it_product(_)
it_product(lists) ==
  IF lists = <<>> THEN << <<>> >>
  ELSE LET rest == it_product(Tail(lists))
           first == Head(lists)
       IN  [i \in 1..(Len(first) * Len(rest)) |->
              <<first[((i - 1) \div Len(rest)) + 1]>> \o rest[((i - 1) % Len(rest)) + 1]]

RECURSIVE ProdSeq(_)
ProdSeq(s) == IF s = <<>> THEN 1 ELSE Head(s) * ProdSeq(Tail(s))
MaxSeq(s) == CHOOSE m \in {s[i] : i \in 1..Len(s)} : \A i \in 1..Len(s) : m >= s[i]

\* the operators that unpack=True wraps as lambda x: operator(*x): op.sub,
\* op.ge, op.gt, op.le, op.lt and cmp take exactly two arguments
BinaryOps == {"sub", "ge", "gt", "le", "lt", "cmp"}

\* a comparison result as the integer it equals (True == 1, False == 0)
Bool(b) == IF b THEN 1 ELSE 0

\* self.operator(xs) for the operators sum, np.prod, max and min, and for the
\* unpacked binary operators on a pair
OperatorOf(o, xs) ==
  CASE o = "sum" -> SumSeq(xs)
    [] o = "prod" -> ProdSeq(xs)
    [] o = "max" -> MaxSeq(xs)
    [] o = "min" -> MinSeq(xs)
    [] o = "sub" -> xs[1] - xs[2]
    [] o = "ge" -> Bool(xs[1] >= xs[2])
    [] o = "gt" -> Bool(xs[1] > xs[2])
    [] o = "le" -> Bool(xs[1] <= xs[2])
    [] o = "lt" -> Bool(xs[1] < xs[2])
    [] o = "cmp" -> IF xs[1] < xs[2] THEN 0 - 1 ELSE IF xs[1] > xs[2] THEN 1 ELSE 0

\* val = self.operator(xs) as a rational; "half" is the caller-supplied
\* operator lambda xs: sum(xs) / 2.0
OperatorVal(o, xs) ==
  IF o = "half" THEN Rat(SumSeq(xs), 2) ELSE RInt(OperatorOf(o, xs))

\* int(val): the truncation towards zero
int(val) ==
  IF val[1] >= 0 THEN val[1] \div val[2] ELSE 0 - ((0 - val[1]) \div val[2])

\* self.operator(xs) raises TypeError: op.neg gets the tuple xs itself, and
\* an unpacked binary operator gets len(xs) arguments
OperatorTypeError(o, xs) ==
  \/ o = "neg"
  \/ o \in BinaryOps /\ Len(xs) # 2

\* (mutant of OperatorErr: the integer test is left out)
OperatorErr_unchecked(o, xs) ==
  IF OperatorTypeError(o, xs) THEN "TypeError" ELSE ""

\* what one turn of the loop of Operator._operate raises for the values xs
\* with force_int: the TypeError of the operator, or ValueError("Output is
\* not an integer.") when int(val) != val; "" when nothing is raised
OperatorErr(o, xs) ==
  IF OperatorTypeError(o, xs) THEN "TypeError"
  ELSE IF RInt(int(OperatorVal(o, xs))) # OperatorVal(o, xs) THEN "ValueError"
  ELSE ""

\* (mutant of Accumulate: the mass of a tuple replaces the mass of its value)
Accumulate_assign(dict, xp, o) ==
  LET xs == [i \in 1..Len(xp) |-> xp[i][1]]
      ps == [i \in 1..Len(xp) |-> xp[i][2]]
      val == int(OperatorVal(o, xs))
  IN  [x \in DOMAIN dict \cup {val} |-> IF x # val THEN dict[x] ELSE RProdSeq(ps)]

\* the body of the loop of Operator._operate when nothing is raised:
\* xs, ps = unzip(xp); val = self.operator(xs); val = int(val);
\* d[val] += reduce(op.mul, ps)
Accumulate(dict, xp, o) ==
  LET xs == [i \in 1..Len(xp) |-> xp[i][1]]
      ps == [i \in 1..Len(xp) |-> xp[i][2]]
      val == int(OperatorVal(o, xs))
  IN  DictAdd(dict, val, RProdSeq(ps))

\* d1 and d2 added key by key
DictMerge(d1, d2) ==
  [x \in DOMAIN d1 \cup DOMAIN d2 |->
     IF x \notin DOMAIN d2 THEN d1[x]
     ELSE IF x \notin DOMAIN d1 THEN d2[x] ELSE RAdd(d1[x], d2[x])]

\* the loop of Operator._operate over tuples[lo..hi]; the additions are
\* exact, so the loop is taken by halves
RECURSIVE AccumulateAll(_, _, _, _)
AccumulateAll(tuples, o, lo, hi) ==
  IF lo > hi THEN <<>>
  ELSE IF lo = hi THEN Accumulate(<<>>, tuples[lo], o)
  ELSE LET mid == (lo + hi) \div 2
       IN  DictMerge(AccumulateAll(tuples, o, lo, mid), AccumulateAll(tuples, o, mid + 1, hi))

\* the formats "({_0.name})" sign "({_1.name})" of the binary methods, with
\* their signs
Infix ==
  [f \in {"({_0.name})+({_1.name})", "({_0.name})-({_1.name})",
          "({_0.name})>=({_1.name})", "({_0.name})>({_1.name})",
          "({_0.name})<=({_1.name})", "({_0.name})<({_1.name})",
          "({_0.name})<>({_1.name})"} |->
     CASE f = "({_0.name})+({_1.name})" -> "+"
       [] f = "({_0.name})-({_1.name})" -> "-"
       [] f = "({_0.name})>=({_1.name})" -> ">="
       [] f = "({_0.name})>({_1.name})" -> ">"
       [] f = "({_0.name})<=({_1.name})" -> "<="
       [] f = "({_0.name})<({_1.name})" -> "<"
       [] f = "({_0.name})<>({_1.name})" -> "<>"]

\* name.format(_0=drvs[0], _1=drvs[1], ...) for the formats in use
Format(name, objs) ==
  IF name \in DOMAIN Infix
  THEN "(" \o objs[1].name \o ")" \o Infix[name] \o "(" \o objs[2].name \o ")"
  ELSE IF name = "-({_0.name})" THEN "-(" \o objs[1].name \o ")"
  ELSE IF name = "{_0.name})*({_1.name})"
  THEN objs[1].name \o ")*(" \o objs[2].name \o ")"
  ELSE name

\* the end of Operator._operate: DRV(_name, xs=d.keys(), ps=d.values())
Pack(dict, name, objs) ==
  LET ks == SortedSeq(DOMAIN dict)
  IN  DiscreteRandomVariable(Format(name, objs), ks, [i \in 1..Len(ks) |-> dict[ks[i]]])

\* Operator._operate(pool, name) for a pool of the objects objs
Operator_operate(objs, name, o) ==
  LET tuples == it_product([i \in 1..Len(objs) |-> values(objs[i])])
  IN  Pack(AccumulateAll(tuples, o, 1, Len(tuples)), name, objs).drv

\* what Operator._operate(pool, name) raises for a pool of the objects objs:
\* IndexError at pool.drvs[0] for an empty pool, else what the first raising
\* turn of the loop raises; "" when the call returns
Operator_operateErr(objs, o) ==
  IF objs = <<>> THEN "IndexError"
  ELSE LET tuples == it_product([i \in 1..Len(objs) |-> values(objs[i])])
           xsOf(i) == [j \in 1..Len(tuples[i]) |-> tuples[i][j][1]]
           bad == {i \in 1..Len(tuples) : OperatorErr(o, xsOf(i)) # ""}
       IN  IF bad = {} THEN ""
           ELSE OperatorErr(o, xsOf(CHOOSE i \in bad : \A j \in bad : i <= j))

\* (mutant of _reduce: the fold starts from the second member of the pool)
RECURSIVE _reduce_skip(_, _, _)
_reduce_skip(objs, name, o) ==
  IF Len(objs) <= 2 THEN objs[Len(objs)]
  ELSE Operator_operate(<<_reduce_skip(SubSeq(objs, 1, Len(objs) - 1), name, o),
                          objs[Len(objs)]>>, name, o)

\* ReduceOperator._reduce(drvs, name): res = drvs[0]; for rv in drvs[1:]:
\* res = Operator._operate(RandomVariablePool(res, rv), name)
RECURSIVE _reduce(_, _, _)
_reduce(objs, name, o) ==
  IF Len(objs) = 1 THEN objs[1]
  ELSE Operator_operate(<<_reduce(SubSeq(objs, 1, Len(objs) - 1), name, o),
                          objs[Len(objs)]>>, name, o)

\* what ReduceOperator._reduce(drvs, name) raises: the error of the first
\* step of the fold that raises (force_int = True at every step)
RECURSIVE _reduceErr(_, _, _)
_reduceErr(objs, name, o) ==
  IF Len(objs) = 1 THEN ""
  ELSE LET init == SubSeq(objs, 1, Len(objs) - 1)
           e == _reduceErr(init, name, o)
       IN  IF e # "" THEN e
           ELSE Operator_operateErr(<<_reduce(init, name, o), objs[Len(objs)]>>, o)

\* the operator objects of the module; None has the class NoneType. The
\* operator of an object made with unpack=True is lambda x: operator(*x)
Operator(o, unpack) == [cls |-> "Operator", operator |-> o, unpack |-> unpack]
ReduceOperator(o, id) == [cls |-> "ReduceOperator", operator |-> o, identity |-> id]
IndexedOperator(o, indices, unpack) ==
  [cls |-> "IndexedOperator", operator |-> o, indices |-> indices, unpack |-> unpack]
None == [cls |-> "NoneType", operator |-> "", identity |-> <<>>]
sum_op == ReduceOperator("sum", <<0>>)
neg_op == IndexedOperator("neg", <<0>>, FALSE)
sub_op == IndexedOperator("sub", <<0, 1>>, TRUE)
mul_op == ReduceOperator("prod", <<1>>)
max_op == ReduceOperator("max", <<>>)
min_op == ReduceOperator("min", <<>>)
ge_op == IndexedOperator("ge", <<0, 1>>, TRUE)
gt_op == IndexedOperator("gt", <<0, 1>>, TRUE)
le_op == IndexedOperator("le", <<0, 1>>, TRUE)
lt_op == IndexedOperator("lt", <<0, 1>>, TRUE)
cmp_op == IndexedOperator("cmp", <<0, 1>>, TRUE)

\* a result: the object of the heap that is returned (id, 0 for a new object)
\* and its state
Returned(id, drv) == [id |-> id, name |-> drv.name, dist |-> drv.dist]

\* Operator._operate(pool, name) with what it raises
Operator_operateCall(self, objs, name) ==
  LET e == Operator_operateErr(objs, self.operator)
  IN  IF e # "" THEN [ok |-> FALSE, err |-> e, drv |-> NoDRV]
      ELSE [ok |-> TRUE, err |-> "", drv |-> Operator_operate(objs, name, self.operator)]

\* ReduceOperator._operate(pool, name): for an empty pool the constant of a
\* truthy identity, else ValueError; a pool of one returns its member itself
ReduceOperator_operate(self, objs, name) ==
  IF Len(objs) = 0
  THEN IF self.identity # <<>> /\ self.identity # <<0>>
       THEN [ok |-> TRUE, err |-> "", drv |-> constant(self.identity[1])]
       ELSE [ok |-> FALSE, err |-> "ValueError", drv |-> NoDRV]
  ELSE LET e == _reduceErr(objs, name, self.operator)
       IN  IF e # "" THEN [ok |-> FALSE, err |-> e, drv |-> NoDRV]
           ELSE [ok |-> TRUE, err |-> "", drv |-> _reduce(objs, name, self.operator)]

\* o(pool, name), Operator.__call__, for a pool of the objects objs: calling
\* None raises TypeError; ReduceOperator overrides _operate; IndexedOperator
\* does not (its method is named _operator, and nothing calls it), so it runs
\* Operator._operate on the whole pool as Operator does
Operator__call__(self, objs, name) ==
  IF self.cls = "NoneType" THEN [ok |-> FALSE, err |-> "TypeError", drv |-> NoDRV]
  ELSE IF self.cls \in {"Operator", "IndexedOperator"}
  THEN Operator_operateCall(self, objs, name)
  ELSE ReduceOperator_operate(self, objs, name)

\* the call on the objects pl of the heap: the result with its identity (a
\* reduction of a pool of one returns the member itself)
CallOn(self, pl, name) ==
  LET r == Operator__call__(self, [i \in 1..Len(pl) |-> drvs[pl[i]]], name)
  IN  [ok |-> r.ok, err |-> r.err,
       out |-> IF ~r.ok THEN 0
               ELSE Returned(IF self.cls = "ReduceOperator" /\ Len(pl) = 1 THEN pl[1] ELSE 0,
                             r.drv)]

\* _tuple(n)(x): x followed by n - 1 placeholders; a slot is <<x>>, or <<>>
\* for None
_tuple(n, x) == <<<<x>>>> \o [i \in 1..(n - 1) |-> <<>>]

\* _get_n_highest(n) defines n_highest and returns nothing
_get_n_highest(n) == None

\* MemoryReduceOperator(cast, uncast, operator, unpack=True)
MemoryReduceOperator(n, o) == [cls |-> "MemoryReduceOperator", operator |-> o, identity |-> <<>>]

\* nth_highest(n) builds mro and returns nothing
nth_highest(n) ==
  LET mro == MemoryReduceOperator(n, _get_n_highest(n))
  IN  None

\* DiscreteRandomVariable.unop(operator, name) of core.py
DRV_unop(X, o, name) == Operator__call__(o, <<X>>, name)

\* DiscreteRandomVariable.binop(other, operator, name) of core.py for the
\* object X and other, which is <<"int", n>> or <<"drv", Y>>; an integer
\* becomes constant(n); the result is operator(pool, name) for the pool
\* (self, other)
DRV_binop(X, other, o, name) ==
  Operator__call__(o, <<X, IF other[1] = "int" THEN constant(other[2]) ELSE other[2]>>, name)

\* the methods of DiscreteRandomVariable in core.py
core__add__(X, other) == DRV_binop(X, other, sum_op, "({_0.name})+({_1.name})")
core__ge__(X, other) == DRV_binop(X, other, ge_op, "({_0.name})>=({_1.name})")
core__mul__(X, other) == DRV_binop(X, other, mul_op, "{_0.name})*({_1.name})")
core__neg__(X) == DRV_unop(X, neg_op, "-({_0.name})")
core__sub__(X, other) == DRV_binop(X, other, sub_op, "({_0.name})-({_1.name})")
core_compare(X, other) == DRV_binop(X, other, cmp_op, "({_0.name})<>({_1.name})")

\* what DiscreteRandomVariable.arith of drv.py raises: ValueError("Operator
\* must return integer values.") when some val = operator(x, y) differs from
\* int(val)
arithErr(self, other, o) ==
  LET tuples == it_product(<<values(self), values(other)>>)
      val(i) == OperatorVal(o, <<tuples[i][1][1], tuples[i][2][1]>>)
  IN  IF \E i \in 1..Len(tuples) : val(i) # RInt(int(val(i))) THEN "ValueError" ELSE ""

\* DiscreteRandomVariable.arith(other, operator, name) of drv.py; op.add is
\* the operator "sum" on the pair (x, y)
arith(self, other, o, name) ==
  LET tuples == it_product(<<values(self), values(other)>>)
      dict == AccumulateAll(tuples, o, 1, Len(tuples))
      ks == SortedSeq(DOMAIN dict)
      new_name == IF name = "({x.name})+({y.name})"
                  THEN "(" \o self.name \o ")+(" \o other.name \o ")"
                  ELSE IF name = "{x.name})*({y.name})"
                  THEN self.name \o ")*(" \o other.name \o ")"
                  ELSE name
  IN  IF arithErr(self, other, o) # ""
      THEN [ok |-> FALSE, err |-> arithErr(self, other, o), drv |-> NoDRV]
      ELSE [ok |-> TRUE, err |-> "",
            drv |-> DiscreteRandomVariable(new_name, ks, [i \in 1..Len(ks) |-> dict[ks[i]]]).drv]

\* (mutant of ndk: the pool holds n - 1 dice)
ndk_short(n, k) ==
  LET die == dk(k)
  IN  IF n <= 2 THEN die
      ELSE _reduce([i \in 1..(n - 1) |-> die], ToString(n) \o "d" \o ToString(k), sum_op.operator)

\* DiscreteRandomVariable.__add__ and __mul__ of drv.py: both hand op.add to
\* arith
drvpy_add(X, Y) == arith(X, Y, "sum", "({x.name})+({y.name})")
drvpy_mul(X, Y) == arith(X, Y, "sum", "{x.name})*({y.name})")

\* the loop of RandomVariablePool.sum of drv.py: _sum = self.drvs[0];
\* for drv in self.drvs[1:]: _sum = _sum + drv
RECURSIVE drvpy_fold(_)
drvpy_fold(objs) ==
  IF Len(objs) = 1 THEN objs[1]
  ELSE drvpy_add(drvpy_fold(SubSeq(objs, 1, Len(objs) - 1)), objs[Len(objs)]).drv

\* ndk(n, k) of drv/game/base.py: one die, pooled n times and summed
ndk(n, k) ==
  LET die == dk(k)
  IN  IF n = 1 THEN die
      ELSE _reduce([i \in 1..n |-> die], ToString(n) \o "d" \o ToString(k), sum_op.operator)

\* DiscreteRandomVariable.max and .min: max(self._rv.xk), min(self._rv.xk)
core_max(X) == CHOOSE m \in DOMAIN X.dist : \A v \in DOMAIN X.dist : m >= v
core_min(X) == CHOOSE m \in DOMAIN X.dist : \A v \in DOMAIN X.dist : m <= v

\* DiscreteRandomVariable.expectation(func): self._rv.expect(func=func), the
\* sum of func(xk) pk; func is given as its table over the values
expectation(X, func) ==
  RSum([v \in {<<x>> : x \in DOMAIN X.dist} |-> RMul(RInt(func[v[1]]), X.dist[v[1]])])

\* DiscreteRandomVariable.mean: self._rv.mean(), the sum of xk pk
core_mean(X) == expectation(X, [x \in DOMAIN X.dist |-> x])

\* DiscreteRandomVariable.pr(event): expectation(event) for a boolean function
\* event of the value
pr(X, event) == expectation(X, event)

\* test = (die + skill) >= target, as written
\* (mutant of d20_test: the comparison is strict)
d20_test_gt(skill, target) ==
  LET die == dk(20)
      tst == DRV_binop(core__add__(die, <<"int", skill>>).drv, <<"int", target>>, gt_op,
                       "({_0.name})>({_1.name})")
  IN  [ok |-> TRUE, err |-> "",
       drv |-> [tst.drv EXCEPT !.name = "d20 test: skill " \o ToString(skill)
                                          \o " against target " \o ToString(target)]]

\* test(skill, target) of drv/dice/d20.py: die = dk(20);
\* tst = (die + skill) >= target; tst.name = ...
d20_test(skill, target) ==
  LET die == dk(20)
      sum == core__add__(die, <<"int", skill>>)
      tst == core__ge__(sum.drv, <<"int", target>>)
  IN  IF ~sum.ok THEN sum
      ELSE IF ~tst.ok THEN tst
      ELSE [ok |-> TRUE, err |-> "",
            drv |-> [tst.drv EXCEPT !.name = "d20 test: skill " \o ToString(skill)
                                               \o " against target " \o ToString(target)]]

\* (mutant of d20_opposed_test: the one die is rolled once for both sides)
d20_opposed_test_same(skill_a, skill_b) ==
  LET c == IF skill_a > skill_b THEN 1 ELSE IF skill_a < skill_b THEN 0 - 1 ELSE 0
  IN  [ok |-> TRUE, err |-> "",
       drv |-> [name |-> "d20 opposed test: A (" \o ToString(skill_a) \o ") against B ("
                           \o ToString(skill_b) \o ")",
                dist |-> [x \in {c} |-> ROne]]]

\* opposed_test(skill_a, skill_b) of drv/dice/d20.py: die = dk(20);
\* tst = (die + skill_a).compare(die + skill_b); tst.name = ...
d20_opposed_test(skill_a, skill_b) ==
  LET die == dk(20)
      A == core__add__(die, <<"int", skill_a>>)
      B == core__add__(die, <<"int", skill_b>>)
      tst == core_compare(A.drv, <<"drv", B.drv>>)
  IN  IF ~A.ok THEN A
      ELSE IF ~B.ok THEN B
      ELSE IF ~tst.ok THEN tst
      ELSE [ok |-> TRUE, err |-> "",
            drv |-> [tst.drv EXCEPT !.name = "d20 opposed test: A (" \o ToString(skill_a)
                                               \o ") against B (" \o ToString(skill_b) \o ")"]]

(***************************************************************************)
(* The operations on integer random variables.                             *)
(***************************************************************************)
\* the inputs: explicit values and weights (X has a repeated value and a value
\* of weight 0), sides of dice, pool lengths
xpdata ==
  { <<"X", <<0 - 2, 0, 0 - 2, 2>>, <<1, 0, 1, 2>>>>,
    <<"E", <<>>, <<>>>> }
Sides == {2}
PoolLens == 0..3
NdkArgs == (1..3) \X (1..4)
Ints == {0, 2}
Pools == UNION {[1..n -> 1..Len(drvs)] : n \in PoolLens}
Operators ==
  { <<"sum_op", sum_op>>, <<"mul_op", mul_op>>, <<"max_op", max_op>>, <<"min_op", min_op>> }
IndexedOperators ==
  { <<"neg_op", neg_op>>, <<"sub_op", sub_op>>, <<"ge_op", ge_op>>, <<"gt_op", gt_op>>,
    <<"le_op", le_op>>, <<"lt_op", lt_op>>, <<"cmp_op", cmp_op>> }

\* the random variables have been built and no call has been made yet; a call
\* leaves the heap as it is, so every call is made from such a state
Fresh == pc = "idle" /\ last.op \in {"none", "DRV", "dk"}

Respond(label, a, r) ==
  /\ last' = IF r.ok THEN Result(label, a, r.out) ELSE Raised(label, a, r.err)
  /\ UNCHANGED <<pspaces, rvs, drvs, arg, _pool_cache, stack, pc, pool, opr, d, todo>>

\* X = DRV(name, xs=xs, ps=ps)
NewDRV(name, xs, ps) ==
  LET r == DiscreteRandomVariable(name, xs, [i \in 1..Len(ps) |-> RInt(ps[i])])
  IN  /\ Fresh /\ Len(drvs) < MaxDRVs
      /\ IF r.ok
         THEN /\ drvs' = Append(drvs, r.drv)
              /\ last' = Result("DRV", xs, Returned(Len(drvs) + 1, r.drv))
         ELSE /\ UNCHANGED drvs
              /\ last' = Raised("DRV", xs, r.err)
      /\ UNCHANGED <<pspaces, rvs, arg, _pool_cache, stack, pc, pool, opr, d, todo>>

\* X = dk(k)
New_dk(k) ==
  /\ Fresh /\ Len(drvs) < MaxDRVs
  /\ drvs' = Append(drvs, dk(k))
  /\ last' = Result("dk", <<k>>, Returned(Len(drvs) + 1, dk(k)))
  /\ UNCHANGED <<pspaces, rvs, arg, _pool_cache, stack, pc, pool, opr, d, todo>>

\* o(RandomVariablePool(pl...), name) for a reducible operator o
CallOperator(label, o, pl, name) ==
  Fresh /\ Respond(label, pl, CallOn(o, pl, name))

\* nth_highest(n)(RandomVariablePool(pl...), name)
CallNthHighest(n, pl, name) ==
  Fresh /\ Respond("nth_highest", <<n>> \o pl, CallOn(nth_highest(n), pl, name))

\* a result of a method: a new object
Out(r) == [ok |-> r.ok, err |-> r.err, out |-> IF r.ok THEN Returned(0, r.drv) ELSE 0]

\* the other operand of a method: <<y>> is the object y of the heap, <<0, n>>
\* the integer n
Operand(other) ==
  IF Len(other) = 2 THEN <<"int", other[2]>> ELSE <<"drv", drvs[other[1]]>>

\* X + Y and X + n in core.py
DRV__add__(x, other) ==
  /\ Fresh
  /\ Respond(IF Len(other) = 2 THEN "__add__int" ELSE "__add__", <<x>> \o other,
             Out(core__add__(drvs[x], Operand(other))))

\* X - Y and X - n in core.py
DRV__sub__(x, other) ==
  /\ Fresh
  /\ Respond(IF Len(other) = 2 THEN "__sub__int" ELSE "__sub__", <<x>> \o other,
             Out(core__sub__(drvs[x], Operand(other))))

\* X * Y in core.py
DRV__mul__(x, y) ==
  Fresh /\ Respond("__mul__", <<x, y>>, Out(core__mul__(drvs[x], <<"drv", drvs[y]>>)))

\* -X in core.py
DRV__neg__(x) == Fresh /\ Respond("__neg__", <<x>>, Out(core__neg__(drvs[x])))

\* X + Y in drv.py
drvpy__add__(x, y) ==
  /\ Fresh
  /\ Respond("arith", <<x, y>>, Out(drvpy_add(drvs[x], drvs[y])))

\* X * Y in drv.py
drvpy__mul__(x, y) ==
  Fresh /\ Respond("drvpy.__mul__", <<x, y>>, Out(drvpy_mul(drvs[x], drvs[y])))

\* RandomVariablePool(pl...).sum(name) in drv.py; name "" stands for None.
\* self.drvs[0] raises IndexError for an empty pool; for a pool of one _sum is
\* the member itself, and `_sum.name = name` renames it
drvpy_sum(pl, name) ==
  /\ Fresh
  /\ IF pl = <<>>
     THEN /\ last' = Raised("pool.sum", pl, "IndexError")
          /\ UNCHANGED drvs
     ELSE LET _sum == drvpy_fold([i \in 1..Len(pl) |-> drvs[pl[i]]])
              named == IF name # "" THEN [_sum EXCEPT !.name = name] ELSE _sum
          IN  /\ drvs' = IF Len(pl) = 1 THEN [drvs EXCEPT ![pl[1]] = named] ELSE drvs
              /\ last' = Result("pool.sum", pl,
                                Returned(IF Len(pl) = 1 THEN pl[1] ELSE 0, named))
  /\ UNCHANGED <<pspaces, rvs, arg, _pool_cache, stack, pc, pool, opr, d, todo>>

\* X.arith(Y, half, "half") in drv.py for half = lambda x, y: (x + y) / 2.0
drvpy_arith(x, y) ==
  /\ Fresh
  /\ Respond("arith(half)", <<x, y>>, Out(arith(drvs[x], drvs[y], "half", "half")))

\* ndk(n, k)
Call_ndk(n, k) ==
  Fresh /\ Respond("ndk", <<n, k>>, [ok |-> TRUE, err |-> "", out |-> Returned(0, ndk(n, k))])

\* Operator(o)._operate(RandomVariablePool(pl...), name), step by step:
\* DRV = type(pool.drvs[0]) raises IndexError for an empty pool
OperateBegin(o, pl) ==
  /\ Fresh
  /\ IF pl = <<>>
     THEN /\ last' = Raised("_operate", pl, "IndexError")
          /\ UNCHANGED <<pc, pool, opr, d, todo>>
     ELSE /\ pc' = "loop"
          /\ pool' = pl
          /\ opr' = o
          /\ d' = <<>>
          /\ todo' = it_product([i \in 1..Len(pl) |-> values(drvs[pl[i]])])
          /\ last' = NoResult
  /\ UNCHANGED <<pspaces, rvs, drvs, arg, _pool_cache, stack>>

\* one turn of the loop over it.product; an exception ends the call
OperateStep ==
  LET xp == Head(todo)
      e == OperatorErr(opr, [i \in 1..Len(xp) |-> xp[i][1]])
  IN  /\ pc = "loop" /\ todo # <<>>
      /\ IF e # ""
         THEN /\ last' = Raised("_operate", pool, e)
              /\ pc' = "idle" /\ pool' = <<>> /\ opr' = "" /\ d' = <<>> /\ todo' = <<>>
         ELSE /\ d' = Accumulate(d, xp, opr)
              /\ todo' = Tail(todo)
              /\ UNCHANGED <<last, pc, pool, opr>>
      /\ UNCHANGED <<pspaces, rvs, drvs, arg, _pool_cache, stack>>

\* after the loop: DRV(_name, xs=d.keys(), ps=d.values())
OperateBuild ==
  /\ pc = "loop" /\ todo = <<>>
  /\ pc' = "built"
  /\ last' = Result("_operate", pool,
                    Returned(0, Pack(d, opr, [i \in 1..Len(pool) |-> drvs[pool[i]]]).drv))
  /\ UNCHANGED <<pspaces, rvs, drvs, arg, _pool_cache, stack, pool, opr, d, todo>>

\* return: the locals of the call are gone
OperateReturn ==
  /\ pc = "built"
  /\ pc' = "idle" /\ pool' = <<>> /\ opr' = "" /\ d' = <<>>
  /\ UNCHANGED <<pspaces, rvs, drvs, arg, _pool_cache, stack, last, todo>>

InitC == pspaces = <<>> /\ arg = <<>> /\ last = NoResult /\ Idle
NextC ==
  \/ \E e \in xpdata : NewDRV(e[1], e[2], e[3])
  \/ \E k \in Sides : New_dk(k)
  \/ \E o \in Operators, pl \in Pools : CallOperator(o[1], o[2], pl, "pool")
  \/ \E o \in IndexedOperators, pl \in Pools : CallOperator(o[1], o[2], pl, "pool")
  \/ \E pl \in Pools : CallOperator("Operator(half)", Operator("half", FALSE), pl, "pool")
  \/ \E pl \in Pools : CallOperator("ReduceOperator(half)", ReduceOperator("half", <<>>), pl, "pool")
  \/ \E n \in 1..2, pl \in Pools : CallNthHighest(n, pl, "nth")
  \/ \E x, y \in 1..Len(drvs) : DRV__add__(x, <<y>>)
  \/ \E x \in 1..Len(drvs), n \in Ints : DRV__add__(x, <<0, n>>)
  \/ \E x, y \in 1..Len(drvs) : DRV__sub__(x, <<y>>)
  \/ \E x \in 1..Len(drvs), n \in Ints : DRV__sub__(x, <<0, n>>)
  \/ \E x \in 1..Len(drvs) : DRV__neg__(x)
  \/ \E x, y \in 1..Len(drvs) : drvpy__add__(x, y)
  \/ \E x, y \in 1..Len(drvs) : drvpy_arith(x, y)
  \/ \E x, y \in 1..Len(drvs) : DRV__mul__(x, y)
  \/ \E x, y \in 1..Len(drvs) : drvpy__mul__(x, y)
  \/ \E pl \in Pools, name \in {"", "pool"} : drvpy_sum(pl, name)
  \/ \E a \in NdkArgs : Call_ndk(a[1], a[2])
  \/ \E o \in {"sum", "prod", "max", "min", "half"}, pl \in Pools : OperateBegin(o, pl)
  \/ OperateStep
  \/ OperateBuild
  \/ OperateReturn
SpecC == InitC /\ [][NextC]_vars

(***************************************************************************)
(* pool(n, k, tn) of drv.py and its cache.                                 *)
(***************************************************************************)
MaxN == 3

\* ndk(n, k) of drv.py: the die itself for n = 1, else the sum of a pool of n
\* times the die, named "{n}d{k}"
drvpy_ndk(n, k) ==
  IF n = 1 THEN dk(k)
  ELSE [drvpy_fold([i \in 1..n |-> dk(k)]) EXCEPT !.name = ToString(n) \o "d" \o ToString(k)]

\* name = "{}p{}>={}".format(n, k, tn)
pool_name(n, k, tn) == ToString(n) \o "p" \o ToString(k) \o ">=" \o ToString(tn)

\* (mutant of pool_base: the die must exceed the target number)
pool_base_gt(k, tn) ==
  [arith(drvpy_ndk(1, k), constant(tn), "gt", "({x.name})>({y.name})").drv
     EXCEPT !.name = pool_name(1, k, tn)]

\* the branch n == 1 of pool: drv = ndk(1, k) >= tn; drv.name = name
pool_base(k, tn) ==
  [arith(drvpy_ndk(1, k), constant(tn), "ge", "({x.name})>=({y.name})").drv
     EXCEPT !.name = pool_name(1, k, tn)]

\* the end of pool for n > 1: drv = pool(left, k, tn) + pool(right, k, tn);
\* drv.name = name
pool_add(L, R, n, k, tn) == [drvpy_add(L, R).drv EXCEPT !.name = pool_name(n, k, tn)]

\* right = n // 2; left = n - right
pool_right(n) == n \div 2
pool_left(n) == n - pool_right(n)

\* the frame of a call pool(n, k, tn): its arguments, where it stands, and the
\* objects it holds (ids of the heap)
Frame(n, k, tn) ==
  [n |-> n, k |-> k, tn |-> tn, at |-> "try", left |-> 0, drv |-> 0]
Top == stack[Len(stack)]

\* (mutant of Key: the target number is not part of the key)
Key_nk(f) == <<f.n, f.k, 0>>

\* the key of _pool_cache: the tuple (n, k, tn), compared by value
Key(f) == <<f.n, f.k, f.tn>>

\* _pool_cache[key] = drv
Store(key, id) == [x \in DOMAIN _pool_cache \cup {key} |-> IF x = key THEN id ELSE _pool_cache[x]]

\* the sides and target numbers of the pools asked for
PoolDice == {<<3, 2>>, <<3, 4>>}

\* a call pool(n, k, tn) from outside
Call_pool(n, k, tn) ==
  /\ stack = <<>>
  /\ stack' = <<Frame(n, k, tn)>>
  /\ last' = NoResult
  /\ UNCHANGED <<pspaces, rvs, drvs, arg, pc, pool, opr, d, todo, _pool_cache>>

\* the body of pool up to its first recursive call: a cached object is
\* returned; for n == 1 the object is built, stored and returned; else
\* pool(left, k, tn) is called
PoolTry ==
  /\ stack # <<>> /\ Top.at = "try"
  /\ IF Key(Top) \in DOMAIN _pool_cache
     THEN /\ stack' = [stack EXCEPT ![Len(stack)] =
                         [Top EXCEPT !.at = "return", !.drv = _pool_cache[Key(Top)]]]
          /\ UNCHANGED <<drvs, _pool_cache>>
     ELSE IF Top.n = 1
     THEN /\ drvs' = Append(drvs, pool_base(Top.k, Top.tn))
          /\ _pool_cache' = Store(Key(Top), Len(drvs) + 1)
          /\ stack' = [stack EXCEPT ![Len(stack)] =
                         [Top EXCEPT !.at = "return", !.drv = Len(drvs) + 1]]
     ELSE /\ stack' = Append([stack EXCEPT ![Len(stack)] = [Top EXCEPT !.at = "left"]],
                             Frame(pool_left(Top.n), Top.k, Top.tn))
          /\ UNCHANGED <<drvs, _pool_cache>>
  /\ UNCHANGED <<pspaces, rvs, arg, last, pc, pool, opr, d, todo>>

\* a return to the caller: to the user, or to a frame waiting for its left
\* operand, which then calls pool(right, k, tn), or to a frame waiting for its
\* right operand, which then adds, names, stores and is ready to return
PoolReturn ==
  /\ stack # <<>> /\ Top.at = "return"
  /\ IF Len(stack) = 1
     THEN /\ stack' = <<>>
          /\ last' = Result("pool", Key(Top), Returned(Top.drv, drvs[Top.drv]))
          /\ UNCHANGED <<drvs, _pool_cache>>
     ELSE LET caller == stack[Len(stack) - 1]
              below == SubSeq(stack, 1, Len(stack) - 2)
          IN  IF caller.at = "left"
              THEN /\ stack' = below \o <<[caller EXCEPT !.at = "right", !.left = Top.drv],
                                         Frame(pool_right(caller.n), caller.k, caller.tn)>>
                   /\ UNCHANGED <<drvs, _pool_cache, last>>
              ELSE /\ drvs' = Append(drvs, pool_add(drvs[caller.left], drvs[Top.drv],
                                                    caller.n, caller.k, caller.tn))
                   /\ _pool_cache' = Store(Key(caller), Len(drvs) + 1)
                   /\ stack' = below \o <<[caller EXCEPT !.at = "return",
                                                         !.drv = Len(drvs) + 1]>>
                   /\ UNCHANGED last
  /\ UNCHANGED <<pspaces, rvs, arg, pc, pool, opr, d, todo>>

InitM == pspaces = <<>> /\ arg = <<>> /\ last = NoResult /\ Idle
NextM ==
  \/ \E n \in 1..MaxN, kt \in PoolDice : Call_pool(n, kt[1], kt[2])
  \/ PoolTry
  \/ PoolReturn
SpecM == InitM /\ [][NextM]_vars
\* a call that has begun goes on, the interpreter runs it to its end: weak
\* fairness of the steps of a call, WF_vars(PoolTry \/ PoolReturn), written
\* with its enabling condition, which is that the stack is not empty
SpecMFair ==
  SpecM /\ ([]<>(stack = <<>>) \/ []<><<PoolTry \/ PoolReturn>>_vars)

(***************************************************************************)
(* The dice of drv/game/base.py and drv/dice/d20.py.                       *)
(***************************************************************************)
\* the dice rolled, and the skills and targets of the d20 tests
DiceArgs == {<<1, 6>>, <<2, 6>>, <<3, 6>>, <<1, 20>>, <<2, 20>>, <<4, 3>>}
Skills == {0 - 3, 0, 5, 11, 17, 30}
Targets == {0 - 8, 0, 1, 2, 12, 20, 21, 22, 27, 38, 45, 51}

\* tst = drv.dice.d20.test(skill, target)
Call_d20_test(skill, target) ==
  Fresh /\ Respond("d20.test", <<skill, target>>, Out(d20_test(skill, target)))

\* tst = drv.dice.d20.opposed_test(skill_a, skill_b)
Call_d20_opposed_test(skill_a, skill_b) ==
  Fresh /\ Respond("d20.opposed_test", <<skill_a, skill_b>>,
                   Out(d20_opposed_test(skill_a, skill_b)))

InitD == pspaces = <<>> /\ arg = <<>> /\ last = NoResult /\ Idle
NextD ==
  \/ \E a \in DiceArgs : Call_ndk(a[1], a[2])
  \/ \E s \in Skills, t \in Targets : Call_d20_test(s, t)
  \/ \E sa, sb \in Skills : Call_d20_opposed_test(sa, sb)
SpecD == InitD /\ [][NextD]_vars

(***************************************************************************)
(* Claims about drv/pspace.py.                                             *)
(***************************************************************************)
IsLeaf(s) == pspaces[s].kind = "F"
Mass(s) == RSum([w \in Omega(pspaces, s) |-> p(pspaces, s, w)])
One(s) == [w \in Omega(pspaces, s) |-> ROne]

\* C4: for a non-empty list ps of nonnegative weights with positive sum,
\* FDPSpace(ps) is built, its outcomes are 0..n-1, p(i) = ps[i] / sum(ps), the
\* probabilities sum to 1 and the constant 1 integrates to 1, zero entries or not.
C4_Normalization ==
  (/\ last.op = "FDPSpace" /\ last.args # <<>>
   /\ \A i \in 1..Len(last.args) : last.args[i] >= 0
   /\ SumSeq(last.args) > 0)
  => /\ last.ok
     /\ Omega(pspaces, last.out) = {<<i>> : i \in 0..(Len(last.args) - 1)}
     /\ \A i \in 0..(Len(last.args) - 1) :
          LET q == p(pspaces, last.out, <<i>>)
          IN  q[2] > 0 /\ q[1] * SumSeq(last.args) = last.args[i + 1] * q[2]
     /\ Mass(last.out) = ROne
     /\ integrate(pspaces, last.out, One(last.out)) = ROne

C4_Witness ==
  /\ last.op = "FDPSpace" /\ last.ok /\ Len(last.args) = 3
  /\ last.args[2] = 0 /\ SumSeq(last.args) = 3
  /\ p(pspaces, last.out, <<2>>) = <<2, 3>>

C6_ProductNormalized ==
  \A s \in 1..Len(pspaces) : pspaces[s].kind = "P" => REq(Mass(s), ROne)

\* C7: for distinct finite spaces A, B, ProductDPSpace(A, B) has all pairs as
\* outcomes, p(a, b) = p_A(a) * p_B(b), and integrating f over the product
\* equals both iterated integrals, for every f of the family below.
Coefs == {0 - 1, 0, 2}
PolyF(c, a, b) == RInt(c[1] + c[2] * a + c[3] * b + c[4] * a * b)
Range(s) == 0..(Len(pspaces[s].ps) - 1)

C7_ProductMeasure ==
  (/\ last.op = "ProductDPSpace" /\ Len(last.args) = 2
   /\ last.args[1] # last.args[2]
   /\ IsLeaf(last.args[1]) /\ IsLeaf(last.args[2]))
  => LET A == last.args[1]
         B == last.args[2]
         AB == last.out
     IN  /\ Omega(pspaces, AB) = {<<a, b>> : a \in Range(A), b \in Range(B)}
         /\ \A a \in Range(A), b \in Range(B) :
              REq(p(pspaces, AB, <<a, b>>),
                  RMul(p(pspaces, A, <<a>>), p(pspaces, B, <<b>>)))
         /\ \A c \in [1..4 -> Coefs] :
              LET whole == integrate(pspaces, AB,
                             [w \in Omega(pspaces, AB) |-> PolyF(c, w[1], w[2])])
                  ab == integrate(pspaces, A, [wa \in Omega(pspaces, A) |->
                          integrate(pspaces, B, [wb \in Omega(pspaces, B) |->
                            PolyF(c, wa[1], wb[1])])])
                  ba == integrate(pspaces, B, [wb \in Omega(pspaces, B) |->
                          integrate(pspaces, A, [wa \in Omega(pspaces, A) |->
                            PolyF(c, wa[1], wb[1])])])
              IN  REq(ab, whole) /\ REq(ba, whole)

C7_Witness ==
  /\ last.op = "ProductDPSpace" /\ Len(last.args) = 2
  /\ last.args[1] # last.args[2]
  /\ IsLeaf(last.args[1]) /\ IsLeaf(last.args[2])
  /\ Len(pspaces[last.args[1]].ps) = 2 /\ Len(pspaces[last.args[2]].ps) = 3
  /\ p(pspaces, last.out, <<1, 2>>) = <<1, 3>>

(***************************************************************************)
(* Claims about drv/real.py.                                               *)
(***************************************************************************)
\* the values r takes, and the probability that r takes the value v
Values(r) == {Func(pspaces, rvs, r, w) : w \in Omega(pspaces, rvs[r].pspace)}
Pr(r, v) ==
  RSum([w \in Omega(pspaces, rvs[r].pspace) |->
          IF Func(pspaces, rvs, r, w) = v THEN p(pspaces, rvs[r].pspace, w) ELSE RZero])

Components(r) == {PSpacesOf(pspaces, rvs[r].pspace)[i] :
                    i \in 1..Len(PSpacesOf(pspaces, rvs[r].pspace))}
SameLaw(x, y) == \A v \in Values(x) \cup Values(y) : REq(Pr(x, v), Pr(y, v))
IsAdd == last.op = "({0})+({1})" /\ last.ok

IsD6(x) ==
  /\ rvs[x].func = PolyFunc(<<1, 1, 0>>)
  /\ pspaces[rvs[x].pspace].ps = [i \in 1..6 |-> <<1, 6>>]

Joint(objs) ==
  {t \in [1..Len(objs) -> UNION {DOMAIN objs[i].dist : i \in 1..Len(objs)}] :
     \A i \in 1..Len(objs) : t[i] \in DOMAIN objs[i].dist}
JointMass(objs, t) == RProdSeq([i \in 1..Len(objs) |-> objs[i].dist[t[i]]])

\* the integer that the operator o gives on the values t (for half, on values
\* of an even sum)
ValueOf(o, t) == IF o = "half" THEN SumSeq(t) \div 2 ELSE OperatorOf(o, t)

\* the mass of the outcomes in T whose values o takes to v
MassAt(objs, T, o, v) ==
  RSum([t \in {u \in T : ValueOf(o, u) = v} |-> JointMass(objs, t)])
Total(dict) == RSum([v \in {<<x>> : x \in DOMAIN dict} |-> dict[v[1]]])
IsLawOn(dict, objs, T, o) ==
  /\ DOMAIN dict = {ValueOf(o, t) : t \in T}
  /\ \A v \in DOMAIN dict : REq(dict[v], MassAt(objs, T, o, v))

Members(pl) == [i \in 1..Len(pl) |-> drvs[pl[i]]]
Pending == {[i \in 1..Len(todo[j]) |-> todo[j][i][1]] : j \in 1..Len(todo)}

\* C8: while Operator._operate runs over a pool, the map d holds for each
\* value v the summed mass of the joint outcomes handled so far that the
\* operator takes to v, and the mass in d and the mass still to be handled
\* add up to 1; the random variable built at the end has exactly the map's
\* probabilities, of total mass 1, and neither the map nor the random
\* variable changes once it is built.
C8_Accumulated ==
  pc \in {"loop", "built"} =>
    /\ IsLawOn(d, Members(pool), Joint(Members(pool)) \ Pending, opr)
    /\ REq(RAdd(Total(d), RSum([t \in Pending |-> JointMass(Members(pool), t)])), ROne)
    /\ pc = "built" =>
         /\ Pending = {}
         /\ REq(Total(d), ROne)
         /\ last.op = "_operate" /\ last.ok
         /\ DOMAIN last.out.dist = DOMAIN d
         /\ \A v \in DOMAIN d : REq(last.out.dist[v], d[v])
C8_Built == pc = "built" => (last' = last /\ (pc' = "built" => d' = d))
C8_NaiveApply == []C8_Accumulated /\ [][C8_Built]_vars

\* a random variable has been built from three members, two of them distinct
\* objects, with fewer values than joint outcomes
C8_Witness ==
  /\ pc = "built" /\ Len(pool) = 3 /\ pool[1] # pool[2]
  /\ Cardinality(DOMAIN d) < Cardinality(Joint(Members(pool)))
  /\ Cardinality(DOMAIN d) > 1
  /\ last.out.dist = d

ReduceLabels == {"sum_op", "mul_op", "max_op", "min_op"}
OperatorNamed(label) == (CHOOSE o \in Operators : o[1] = label)[2].operator
Mean(dist) == RSum([v \in {<<x>> : x \in DOMAIN dist} |-> RMul(RInt(v[1]), dist[v[1]])])
Var(dist) ==
  RSub(RSum([v \in {<<x>> : x \in DOMAIN dist} |-> RMul(RInt(v[1] * v[1]), dist[v[1]])]),
       RMul(Mean(dist), Mean(dist)))

\* C9: the left fold of ReduceOperator over a pool of n >= 1 random variables
\* gives, for sum_op, mul_op, max_op and min_op, the law of the operator
\* applied to the n values of a joint outcome of independent copies of the
\* members; ndk(n, k) has minimum n, maximum n k, mean n (k + 1) / 2 and
\* variance n (k^2 - 1) / 12.
C9_FoldIsEnumeration ==
  /\ (last.op \in ReduceLabels /\ Len(last.args) >= 1) =>
       /\ last.ok
       /\ IsLawOn(last.out.dist, Members(last.args), Joint(Members(last.args)),
                  OperatorNamed(last.op))
  /\ last.op = "ndk" =>
       LET n == last.args[1]
           k == last.args[2]
           dist == last.out.dist
       IN  /\ IsLawOn(dist, [i \in 1..n |-> dk(k)], Joint([i \in 1..n |-> dk(k)]), "sum")
           /\ \A v \in DOMAIN dist : v >= n /\ v <= n * k
           /\ n \in DOMAIN dist /\ n * k \in DOMAIN dist
           /\ REq(Mean(dist), Rat(n * (k + 1), 2))
           /\ REq(Var(dist), Rat(n * (k * k - 1), 12))

\* a pool of three members, not all the same object, has been folded
C9_Witness ==
  /\ last.op = "mul_op" /\ Len(last.args) = 3 /\ last.ok
  /\ last.args[1] # last.args[3]
  /\ Cardinality(DOMAIN last.out.dist) > 2
  /\ REq(Total(last.out.dist), ROne)

\* C2: X + X for one and the same object X, by __add__ of core.py or of
\* drv.py, is distributed as 2X: the values are the doubled values of X with
\* their probabilities, and the variance is four times that of X.
C2_SelfSumIsDouble ==
  (last.op \in {"__add__", "arith"} /\ last.args[1] = last.args[2]) =>
    LET X == drvs[last.args[1]].dist
    IN  /\ last.ok
        /\ DOMAIN last.out.dist = {2 * v : v \in DOMAIN X}
        /\ \A v \in DOMAIN X : REq(last.out.dist[2 * v], X[v])
        /\ REq(Var(last.out.dist), RMul(RInt(4), Var(X)))

\* the n-th highest of the values t
NthHighestOf(t, n) ==
  CHOOSE v \in {t[i] : i \in 1..Len(t)} :
    /\ Cardinality({i \in 1..Len(t) : t[i] > v}) < n
    /\ Cardinality({i \in 1..Len(t) : t[i] >= v}) >= n

\* C10: nth_highest(n) applied to a pool of at least n random variables
\* returns a random variable with the law of the n-th highest of the values
\* of a joint outcome.
C10_NthHighest ==
  (last.op = "nth_highest" /\ Len(last.args) > last.args[1]) =>
    LET n == last.args[1]
        objs == Members(Tail(last.args))
    IN  /\ last.ok
        /\ DOMAIN last.out.dist = {NthHighestOf(t, n) : t \in Joint(objs)}
        /\ \A v \in DOMAIN last.out.dist :
             REq(last.out.dist[v],
                 RSum([t \in {u \in Joint(objs) : NthHighestOf(u, n) = v} |-> JointMass(objs, t)]))

\* the indexed operators by their names, and the value each is meant to give
\* on the values t of its positions
IndexedLabels == {o[1] : o \in IndexedOperators}
IndexedNamed(label) == (CHOOSE o \in IndexedOperators : o[1] = label)[2]
Naive(o, t) == IF o = "neg" THEN 0 - t[1] ELSE OperatorOf(o, t)

\* C11: an indexed operator with the index list I (neg_op: [0]; sub_op,
\* ge_op, gt_op, le_op, lt_op, cmp_op: [0, 1]), applied to a pool longer than
\* max(I), returns the random variable with the law of the operator on the
\* values of the members at the positions I of a joint outcome, whatever the
\* members at the other positions are.
C11_IndexedPositions ==
  (last.op \in IndexedLabels
     /\ \A k \in 1..Len(IndexedNamed(last.op).indices) :
          Len(last.args) > IndexedNamed(last.op).indices[k]) =>
    LET self == IndexedNamed(last.op)
        sub == [k \in 1..Len(self.indices) |-> drvs[last.args[self.indices[k] + 1]]]
    IN  /\ last.ok
        /\ DOMAIN last.out.dist = {Naive(self.operator, t) : t \in Joint(sub)}
        /\ \A v \in DOMAIN last.out.dist :
             REq(last.out.dist[v],
                 RSum([t \in {u \in Joint(sub) : Naive(self.operator, u) = v} |->
                         JointMass(sub, t)]))

\* C12: a reduction operator applied to an empty pool raises ValueError only
\* when it has no identity (max_op, min_op); with a declared identity (sum_op:
\* 0, mul_op: 1) it returns the constant random variable of that identity.
C12_EmptyPool ==
  (last.op \in ReduceLabels /\ last.args = <<>>) =>
    LET self == (CHOOSE o \in Operators : o[1] = last.op)[2]
    IN  IF self.identity = <<>>
        THEN ~last.ok /\ last.err = "ValueError"
        ELSE /\ last.ok
             /\ DOMAIN last.out.dist = {self.identity[1]}
             /\ REq(last.out.dist[self.identity[1]], ROne)

\* half gives a non-integer on the values t
HalfOdd(t) == SumSeq(t) % 2 # 0

\* the values of the left fold of half over objs, while they are integers
RECURSIVE HalfFoldVals(_)
HalfFoldVals(objs) ==
  IF Len(objs) = 1 THEN DOMAIN objs[1].dist
  ELSE {(a + b) \div 2 : a \in HalfFoldVals(SubSeq(objs, 1, Len(objs) - 1)),
                         b \in DOMAIN objs[Len(objs)].dist}

\* every step of the left fold of half over objs gives integers only
RECURSIVE HalfFoldOk(_)
HalfFoldOk(objs) ==
  \/ Len(objs) = 1
  \/ /\ HalfFoldOk(SubSeq(objs, 1, Len(objs) - 1))
     /\ \A a \in HalfFoldVals(SubSeq(objs, 1, Len(objs) - 1)), b \in DOMAIN objs[Len(objs)].dist :
          ~HalfOdd(<<a, b>>)

\* C13 (calls): for the operator half, which gives a non-integer on the values
\* of an odd sum, a naive apply (Operator, and arith of drv.py) raises
\* ValueError and returns no random variable when some joint outcome of the
\* pool has an odd sum, and otherwise returns the law of the halved sums; a
\* ReduceOperator fold raises ValueError when some step meets an odd sum and
\* otherwise returns the values of the fold.
C13_Calls ==
  /\ (last.op \in {"Operator(half)", "arith(half)"} /\ Len(last.args) >= 1) =>
       LET objs == Members(last.args)
       IN  IF \E t \in Joint(objs) : HalfOdd(t)
           THEN ~last.ok /\ last.err = "ValueError" /\ last.out = 0
           ELSE last.ok /\ IsLawOn(last.out.dist, objs, Joint(objs), "half")
  /\ (last.op = "ReduceOperator(half)" /\ Len(last.args) >= 1) =>
       LET objs == Members(last.args)
       IN  IF ~HalfFoldOk(objs)
           THEN ~last.ok /\ last.err = "ValueError" /\ last.out = 0
           ELSE last.ok /\ DOMAIN last.out.dist = HalfFoldVals(objs)
                        /\ REq(Total(last.out.dist), ROne)

\* C13 (steps): a turn of the loop of Operator._operate that meets values of
\* an odd sum ends the call with ValueError and leaves no map; before it the
\* map holds halved even sums only.
C13_Step ==
  (pc = "loop" /\ opr = "half" /\ todo # <<>>) =>
    LET t == [i \in 1..Len(Head(todo)) |-> Head(todo)[i][1]]
    IN  IF HalfOdd(t)
        THEN ~last'.ok /\ last'.err = "ValueError" /\ last'.op = "_operate"
             /\ pc' = "idle" /\ d' = <<>>
        ELSE pc' = "loop" /\ SumSeq(t) \div 2 \in DOMAIN d' /\ last' = last

\* C13: a non-integer result of the operator makes the combination raise
\* ValueError and return no random variable, in a single naive apply and at
\* every step of a ReduceOperator fold; nothing is truncated or rounded into
\* the result.
C13_NonIntegerFails == []C13_Calls /\ [][C13_Step]_vars

\* a fold of three members has raised at its second step, the first step
\* having given integers only
C13_Witness ==
  /\ last.op = "ReduceOperator(half)" /\ Len(last.args) = 3
  /\ ~last.ok /\ last.err = "ValueError"
  /\ HalfFoldOk(Members(SubSeq(last.args, 1, 2)))
  /\ Cardinality(HalfFoldVals(Members(SubSeq(last.args, 1, 2)))) > 2

(***************************************************************************)
(* Further claims about drv/pspace.py and drv/rv.py.                       *)
(***************************************************************************)
\* C14: FDPSpace(ps) raises ValueError exactly when some weight is negative
\* or the weights sum to zero, with the message of the negative weight when
\* both apply and the message of the zero sum for a non-empty list without a
\* negative weight; no space is produced then; every other list is built.
C14_Rejection ==
  last.op = "FDPSpace" =>
    LET ps == last.args
        neg == \E i \in 1..Len(ps) : ps[i] < 0
        zero == SumSeq(ps) = 0
    IN  /\ ~last.ok <=> (neg \/ zero)
        /\ neg => last.err = NEG_PROB
        /\ (zero /\ ~neg /\ ps # <<>>) => last.err = ZERO_PROB
        /\ ~last.ok => (pspaces = <<>> /\ last.out = 0)
        /\ last.ok => (Len(pspaces) = 1 /\ last.out = 1 /\ pspaces[1].kind = "F"
                       /\ Len(pspaces[1].ps) = Len(ps))

\* a list with a negative weight and a zero sum has been rejected for its
\* negative weight
C14_Witness ==
  /\ last.op = "FDPSpace" /\ ~last.ok /\ last.err = NEG_PROB
  /\ Len(last.args) = 3 /\ SumSeq(last.args) = 0 /\ last.args[3] = 0 - 1
  /\ pspaces = <<>>

\* C15: for a finite random variable (here the one just built), pmf(v) is the
\* sum of pspace.p(w) over the outcomes w with func(w) = v, and 0 for a value
\* that func does not take; for the identity over FDPSpace(ps),
\* pmf(i) = ps[i] / sum(ps).
C15_Pmf ==
  (last.op # "none" /\ last.ok) =>
    LET r == last.out
        S == rvs[r].pspace
    IN  /\ \A v \in Values(r) :
             REq(pmf(pspaces, rvs, r, v),
                 RSum([w \in {u \in Omega(pspaces, S) : Func(pspaces, rvs, r, u) = v} |->
                         p(pspaces, S, w)]))
        /\ \A v \in {0 - 1, 5, 30} \ Values(r) : pmf(pspaces, rvs, r, v) = RZero
        /\ (last.op = "FRDRV" /\ rvs[r].func = PolyFunc(<<0, 1, 0>>)) =>
             \A i \in 0..(Len(last.args) - 1) :
               LET q == pmf(pspaces, rvs, r, i)
               IN  q[2] > 0 /\ q[1] * SumSeq(last.args) = last.args[i + 1] * q[2]

\* the pmf of a sum of two random variables over different spaces has been
\* taken at a value that several outcomes give, and the pmf of an identity at
\* an outcome of weight 0
C15_Witness ==
  /\ IsAdd /\ Components(last.args[1]) # Components(last.args[2])
  /\ \E v \in Values(last.out) :
       /\ Cardinality({w \in Omega(pspaces, rvs[last.out].pspace) :
                         Func(pspaces, rvs, last.out, w) = v}) > 1
       /\ RPos(pmf(pspaces, rvs, last.out, v))
  /\ \E r \in 1..Len(rvs) :
       /\ rvs[r].func = PolyFunc(<<0, 1, 0>>)
       /\ pmf(pspaces, rvs, r, 0) = RZero /\ pmf(pspaces, rvs, r, 2) = <<2, 3>>

\* C16: for a finite random variable (here the one just built), support is
\* exactly the set of values func gives on outcomes of positive probability,
\* that is the values of positive probability mass; max and min are its
\* largest and smallest elements; for the identity over FDPSpace(ps) the
\* support is the set of the i with ps[i] > 0.
C16_Support ==
  (last.op # "none" /\ last.ok) =>
    LET r == last.out
        sup == support(pspaces, rvs, r)
        pos == {v \in Values(r) : RPos(Pr(r, v))}
    IN  /\ sup = pos
        /\ FRDRV_max(pspaces, rvs, r) \in pos /\ FRDRV_min(pspaces, rvs, r) \in pos
        /\ \A v \in pos : FRDRV_min(pspaces, rvs, r) <= v /\ v <= FRDRV_max(pspaces, rvs, r)
        /\ (last.op = "FRDRV" /\ rvs[r].func = PolyFunc(<<0, 1, 0>>)) =>
             sup = {i \in 0..(Len(last.args) - 1) : last.args[i + 1] > 0}

\* a sum has been built with a random variable whose least and greatest
\* outcomes have weight 0: its support leaves out values that func takes
C16_Witness ==
  /\ IsAdd /\ last.args[1] # last.args[2]
  /\ support(pspaces, rvs, last.out) # Values(last.out)
  /\ Cardinality(support(pspaces, rvs, last.out)) > 2
  /\ FRDRV_max(pspaces, rvs, last.out) \notin
       {v \in Values(last.out) : \A u \in Values(last.out) : u <= v}

hit(X) == [x \in DOMAIN X.dist |-> Bool(x >= 13)]

\* C17 as stated: the sum of three six-sided dice, ndk(3, 6), has min 3,
\* max 18, mean 10.5 and P(total >= 13) = 37/216.
C17_ThreeDiceAsStated ==
  (last.op = "ndk" /\ last.args = <<3, 6>>) =>
     /\ last.ok
     /\ core_min(last.out) = 3 /\ core_max(last.out) = 18
     /\ REq(core_mean(last.out), Rat(21, 2))
     /\ REq(pr(last.out, hit(last.out)), Rat(37, 216))

\* C17 amended: the sum of three six-sided dice, ndk(3, 6), has min 3, max 18,
\* mean 10.5 and P(total >= 13) = 56/216 = 7/27, which is the stated 0.2593
\* to four places; every value from 3 to 18 is taken.
C17_ThreeDice ==
  (last.op = "ndk" /\ last.args = <<3, 6>>) =>
     /\ last.ok
     /\ core_min(last.out) = 3 /\ core_max(last.out) = 18
     /\ DOMAIN last.out.dist = 3..18
     /\ REq(core_mean(last.out), Rat(21, 2))
     /\ REq(pr(last.out, hit(last.out)), Rat(56, 216))
     /\ REq(pr(last.out, hit(last.out)), Rat(7, 27))
     /\ LET prhit == pr(last.out, hit(last.out))
        IN  (prhit[1] * 100000) \div prhit[2] = 25925

\* three six-sided dice have been rolled and 18 has probability 1/216
C17_Witness ==
  /\ last.op = "ndk" /\ last.args = <<3, 6>> /\ last.ok
  /\ REq(last.out.dist[18], Rat(1, 216))
  /\ REq(last.out.dist[13], Rat(21, 216))

\* the rolls of two independent twenty-sided dice, and the number of them in
\* which a + sa compares with b + sb as c does with 0
Rolls == (1..20) \X (1..20)
Cmp(u, v) == IF u > v THEN 1 ELSE IF u < v THEN 0 - 1 ELSE 0
Count(sa, sb, c) == Cardinality({ab \in Rolls : Cmp(ab[1] + sa, ab[2] + sb) = c})
\* the probability of the value c under the law of X, zero off its values
P(X, c) == IF c \in DOMAIN X.dist THEN X.dist[c] ELSE RZero

\* C18: opposed_test(sa, sb) builds (die + sa).compare(die + sb) from a single
\* d20 object; its values lie in {-1, 0, 1}, its probabilities sum to 1
\* exactly, the two rolls are independent (P(c) is the number of pairs (a, b)
\* of 1..20 with a + sa above, equal to or below b + sb, over 400), and the
\* mean is P(A wins) - P(B wins).
C18_OpposedTest ==
  last.op = "d20.opposed_test" =>
    LET sa == last.args[1]
        sb == last.args[2]
        X == last.out
    IN  /\ last.ok
        /\ DOMAIN X.dist \subseteq {0 - 1, 0, 1}
        /\ DOMAIN X.dist = {c \in {0 - 1, 0, 1} : Count(sa, sb, c) > 0}
        /\ \A c \in DOMAIN X.dist : RPos(X.dist[c])
        /\ REq(RSum([c \in {<<v>> : v \in DOMAIN X.dist} |-> X.dist[c[1]]]), ROne)
        /\ \A c \in {0 - 1, 0, 1} : REq(P(X, c), Rat(Count(sa, sb, c), 400))
        /\ REq(core_mean(X), RSub(P(X, 1), P(X, 0 - 1)))
        /\ X.name = "d20 opposed test: A (" \o ToString(sa) \o ") against B ("
                      \o ToString(sb) \o ")"

\* skill 11 against skill 17: all three outcomes occur, a tie in 14 of the
\* 400 rolls, and A wins in 91 of them
C18_Witness ==
  /\ last.op = "d20.opposed_test" /\ last.args = <<11, 17>> /\ last.ok
  /\ DOMAIN last.out.dist = {0 - 1, 0, 1}
  /\ REq(last.out.dist[0], Rat(14, 400))
  /\ REq(last.out.dist[1], Rat(91, 400))

\* clamp(v, lo, hi) of the claim
clamp(v, lo, hi) == IF v < lo THEN lo ELSE IF v > hi THEN hi ELSE v

C19_WitnessCertain ==
  last.op = "d20.test" /\ last.args = <<11, 12>> /\ DOMAIN last.out.dist = {1}
C19_WitnessImpossible ==
  last.op = "d20.test" /\ last.args = <<17, 38>> /\ DOMAIN last.out.dist = {0}

(***************************************************************************)
(* Further claims about the arithmetic of drv/core.py, drv.py and          *)
(* drv/real.py.                                                            *)
(***************************************************************************)
\* C21: for independent A and B (separately built random variables) A * B has
\* the law of the product a b of their values, so that
\* (A * B).mean = A.mean * B.mean, for __mul__ of core.py and of drv.py.
C21_ProductOfIndependent ==
  (last.op \in {"__mul__", "drvpy.__mul__"} /\ last.args[1] # last.args[2]) =>
    LET A == drvs[last.args[1]]
        B == drvs[last.args[2]]
    IN  /\ last.ok
        /\ IsLawOn(last.out.dist, <<A, B>>, Joint(<<A, B>>), "prod")
        /\ REq(Mean(last.out.dist), RMul(Mean(A.dist), Mean(B.dist)))

\* the same for __mul__ of core.py alone
C21_CoreProduct ==
  (last.op = "__mul__" /\ last.args[1] # last.args[2]) =>
    LET A == drvs[last.args[1]]
        B == drvs[last.args[2]]
    IN  /\ last.ok
        /\ IsLawOn(last.out.dist, <<A, B>>, Joint(<<A, B>>), "prod")
        /\ REq(Mean(last.out.dist), RMul(Mean(A.dist), Mean(B.dist)))

\* __mul__ of drv.py gives the law of the sum a + b
C21_DrvpyProductIsSum ==
  last.op = "drvpy.__mul__" =>
    LET A == drvs[last.args[1]]
        B == drvs[last.args[2]]
    IN  /\ last.ok
        /\ IsLawOn(last.out.dist, <<A, B>>, Joint(<<A, B>>), "sum")
        /\ REq(Mean(last.out.dist), RAdd(Mean(A.dist), Mean(B.dist)))

\* the weights given with the values xs in xpdata
WeightsOf(xs) == (CHOOSE e \in xpdata : e[2] = xs)[3]

\* C29: a DiscreteRandomVariable built from explicit lists (xs, ps) removes
\* every value whose probability is zero, merges equal values by adding their
\* probabilities, and normalizes: afterwards xs has no duplicates, every listed
\* value has probability > 0, the probabilities sum to 1, and min / max range
\* over values of positive probability only.
C29_InitializeWithXp ==
  (last.op = "DRV" /\ last.ok) =>
    LET xs == last.args
        ps == WeightsOf(xs)
        X == last.out
        positive == {xs[i] : i \in {j \in 1..Len(xs) : ps[j] > 0}}
    IN  /\ DOMAIN X.dist = positive
        /\ \A v \in DOMAIN X.dist : RPos(X.dist[v])
        /\ REq(Total(X.dist), ROne)
        /\ core_min(X) \in positive /\ core_max(X) \in positive

\* what the code does: no value is removed, equal values are merged and the
\* weights divided by their sum
C29_KeepsZeroWeights ==
  (last.op = "DRV" /\ last.ok) =>
    LET xs == last.args
        ps == WeightsOf(xs)
        X == last.out
    IN  /\ DOMAIN X.dist = {xs[i] : i \in 1..Len(xs)}
        /\ \A v \in DOMAIN X.dist :
             REq(X.dist[v],
                 Rat(SumSeq([i \in 1..Len(xs) |-> IF xs[i] = v THEN ps[i] ELSE 0]), SumSeq(ps)))
        /\ REq(Total(X.dist), ROne)
        /\ drvs[last.out.id].dist = X.dist

\* C27: operands are never modified: after any sequence of arithmetic
\* operators and pool reductions, RandomVariablePool.sum(name) and
\* ReduceOperator on pools of every size >= 1 included, the name and the
\* distribution of every random variable that existed before the operation
\* are unchanged; a name passed to the operation is given only to a newly
\* created result.
C27_Frame ==
  /\ Len(drvs') >= Len(drvs)
  /\ \A i \in 1..Len(drvs) : drvs'[i] = drvs[i]
  /\ (last' # last /\ last'.ok /\ last'.op \in ReduceLabels \cup {"pool.sum"}
        /\ last'.out.id # 0) => last'.out.name = drvs[last'.out.id].name
C27_OperandsUnchanged == [][C27_Frame]_vars

\* what holds instead: only RandomVariablePool.sum of drv.py on a pool of one
\* with a name changes an object, and it changes only the name of the member
C27_FrameButSum ==
  /\ Len(drvs') >= Len(drvs)
  /\ \A i \in 1..Len(drvs) :
       \/ drvs'[i] = drvs[i]
       \/ /\ last'.op = "pool.sum" /\ last'.args = <<i>>
          /\ drvs'[i] = [drvs[i] EXCEPT !.name = "pool"]
C27_OnlySumRenames == [][C27_FrameButSum]_vars

(***************************************************************************)
(* Claims about pool(n, k, tn) of drv.py.                                  *)
(***************************************************************************)
\* the parameters of the call a frame stands for, as a value tuple
ParamsOf(f) == <<f.n, f.k, f.tn>>

\* the cache is keyed by the parameters: every entry is the object built for
\* its key, no two keys share an object, no object was built twice, and a
\* completed call has returned the entry of its own parameters
C26_Keyed ==
  /\ \A key \in DOMAIN _pool_cache :
       /\ _pool_cache[key] \in 1..Len(drvs)
       /\ drvs[_pool_cache[key]].name = pool_name(key[1], key[2], key[3])
  /\ \A k1, k2 \in DOMAIN _pool_cache : k1 # k2 => _pool_cache[k1] # _pool_cache[k2]
  /\ Len(drvs) = Cardinality(DOMAIN _pool_cache)
  /\ last.op = "pool" =>
       /\ last.args \in DOMAIN _pool_cache
       /\ last.out.id = _pool_cache[last.args]
       /\ last.out.name = pool_name(last.args[1], last.args[2], last.args[3])
       /\ last.out.dist = drvs[last.out.id].dist

\* an entry once stored stays as it is, and a call whose parameters are in
\* the cache returns the stored object without building anything
C26_Step ==
  /\ \A key \in DOMAIN _pool_cache :
       key \in DOMAIN _pool_cache' /\ _pool_cache'[key] = _pool_cache[key]
  /\ \A i \in 1..Len(drvs) : Len(drvs') >= i /\ drvs'[i] = drvs[i]
  /\ (stack # <<>> /\ Top.at = "try" /\ ParamsOf(Top) \in DOMAIN _pool_cache) =>
       /\ stack'[Len(stack)].at = "return"
       /\ stack'[Len(stack)].drv = _pool_cache[ParamsOf(Top)]
       /\ drvs' = drvs /\ _pool_cache' = _pool_cache

\* C26: the cache of pool(n, k, tn) is keyed by the value tuple (n, k, tn);
\* after any sequence of calls, a call whose parameters equal those of an
\* earlier completed call returns the identical object stored by that call
\* without recomputing, an entry once stored is never evicted or replaced,
\* and calls with different keys never return each other's entry.
C26_Memoization == []C26_Keyed /\ [][C26_Step]_vars

\* a call of pool(3, 3, 2) from outside is about to return an object that is
\* not the newest of the heap: it was stored by an earlier call
C26_Witness ==
  /\ Len(stack) = 1 /\ Top.at = "return" /\ ParamsOf(Top) = <<3, 3, 2>>
  /\ Top.drv < Len(drvs)
  /\ last.op = "none"

\* the number of ways to choose j of n
RECURSIVE Binom(_, _)
Binom(n, j) ==
  IF j = 0 \/ j = n THEN 1
  ELSE IF j < 0 \/ j > n THEN 0
  ELSE Binom(n - 1, j - 1) + Binom(n - 1, j)
RECURSIVE IPow(_, _)
IPow(a, n) == IF n = 0 THEN 1 ELSE a * IPow(a, n - 1)
Successes(k, tn) == Cardinality({die \in 1..k : die >= tn})

\* the law of the number of successes among n independent k-sided dice
IsBinomial(dist, n, k, tn) ==
  LET s == Successes(k, tn)
  IN  /\ DOMAIN dist \subseteq 0..n
      /\ \A j \in 0..n :
           REq(IF j \in DOMAIN dist THEN dist[j] ELSE RZero,
               Rat(Binom(n, j) * IPow(s, j) * IPow(k - s, n - j), IPow(k, n)))

C30_Binomial ==
  /\ \A key \in DOMAIN _pool_cache :
       IsBinomial(drvs[_pool_cache[key]].dist, key[1], key[2], key[3])
  /\ last.op = "pool" => IsBinomial(last.out.dist, last.args[1], last.args[2], last.args[3])

\* every recursive call is on a strictly smaller n >= 1
C30_Smaller ==
  (Len(stack') > Len(stack) /\ stack # <<>>) =>
    /\ stack'[Len(stack')].n >= 1
    /\ stack'[Len(stack')].n < stack'[Len(stack)].n

\* C30: for every n >= 1, k >= 1 and integer tn, pool(n, k, tn) terminates
\* (every recursive call is on a strictly smaller n >= 1) and returns the
\* number of successes among n independent k-sided dice:
\* P(j) = C(n, j) s^j (k - s)^(n - j) / k^n for j in 0..n, where s is the
\* number of faces d in 1..k with d >= tn, also when both halves of the split
\* are the same cached object.
C30_Pool ==
  /\ []C30_Binomial
  /\ [][C30_Smaller]_vars
  /\ (stack # <<>>) ~> (stack = <<>> /\ last.op = "pool")

\* pool(3, 3, 2) has returned: three successes have probability 8/27; the
\* halves of pool(2, 3, 2) were one and the same object
C30_Witness ==
  /\ last.op = "pool" /\ last.args = <<3, 3, 2>> /\ stack = <<>>
  /\ REq(last.out.dist[3], Rat(8, 27))
  /\ REq(last.out.dist[1], Rat(6, 27))
  /\ <<2, 3, 2>> \in DOMAIN _pool_cache


(***************************************************************************)
(* Claims about the operations of drv/real.py and drv/rv.py (SpecA).       *)
(***************************************************************************)
\* the total probability of the outcomes on which r is at most k
Cum(r, k) == RSum([v \in {<<u>> : u \in {t \in Values(r) : t <= k}} |-> Pr(r, v[1])])

\* C22: PMF/CDF round trip.  X.cdf(k) returns the total probability of the
\* outcomes whose value is at most k, and for every value v of the support
\* of X, cdf(v) - cdf(v - 1) = pmf(v).
C22_PmfCdfRoundTrip ==
  last.op = "cdf" =>
    LET x == last.args[1]
        k == last.args[2]
    IN  /\ last.ok
        /\ REq(last.out, Cum(x, k))
        /\ k \in support(pspaces, rvs, x) =>
             REq(RSub(Cum(x, k), Cum(x, k - 1)), pmf(pspaces, rvs, x, k))

\* What holds instead: every call of RDRV.cdf raises NameError, whatever the
\* random variable and the argument.
C22_CdfRaises ==
  last.op = "cdf" => ~last.ok /\ last.err = "NameError"


\* the call adds or multiplies by the identity of the operation
IsIdentityCall ==
  \/ last.op \in {"+", "r+"} /\ last.args[2] = IntArg(0)
  \/ last.op \in {"*", "r*"} /\ last.args[2] = IntArg(1)

\* the call returned its operand X and built no object
ReturnedSelf ==
  last.ok /\ last.out = last.args[1] /\ rvs = arg.RV /\ pspaces = arg.H

\* C24: identity shortcuts.  X + 0, 0 + X, X * 1 and 1 * X all return X
\* itself, the very same object, with no new random variable or space built.
C24_IdentityShortcuts == IsIdentityCall => ReturnedSelf

\* What holds instead: X + 0, 0 + X and 1 * X return X itself; X * 1 builds
\* one new random variable over the space of X, with the values of X on every
\* outcome, and no new space.
C24_MulBuildsCopy ==
  IsIdentityCall =>
    IF last.op = "*"
    THEN /\ last.ok
         /\ last.out = Len(arg.RV) + 1
         /\ Len(rvs) = Len(arg.RV) + 1
         /\ pspaces = arg.H
         /\ rvs[last.out].pspace = rvs[last.args[1]].pspace
         /\ \A w \in Omega(pspaces, rvs[last.out].pspace) :
              Func(pspaces, rvs, last.out, w) = Func(pspaces, rvs, last.args[1], w)
    ELSE ReturnedSelf


\* the call combined X with the same object
IsSelfCall == last.op \in SelfSyms /\ last.args[2] = RVArg(last.args[1])

\* the call returned a random variable that is c with probability 1
IsConstant(c) == last.ok /\ REq(Pr(last.out, c), ROne)

\* X is 0 with positive probability
MayBeZero(x) == RPos(pmf(arg.H, arg.RV, x, 0))

\* C28: self-operand shortcuts.  X - X, compare(X, X), X < X, X > X and
\* X != X are the constant 0; X == X, X <= X and X >= X the constant 1;
\* X & X and X | X return X itself; X / X and X // X are the constant 1 and
\* X % X the constant 0 when P(X = 0) = 0, and each of the three raises
\* ZeroDivisionError when P(X = 0) > 0.
C28_SelfOperand ==
  IsSelfCall =>
    CASE last.op \in {"-", "compare", "<", ">", "!="} -> IsConstant(0)
      [] last.op \in {"==", "<=", ">="} -> IsConstant(1)
      [] last.op \in {"&", "|"} -> ReturnedSelf
      [] last.op \in {"/", "//", "%"} ->
           IF MayBeZero(last.args[1])
           THEN ~last.ok /\ last.err = "ZeroDivisionError"
           ELSE IsConstant(IF last.op = "%" THEN 0 ELSE 1)

\* What holds instead: X % X is the constant 0 also when P(X = 0) > 0, and
\* the operators >= and & raise TypeError; the other ten are as stated.
C28_AsCoded ==
  IsSelfCall =>
    CASE last.op \in {"-", "compare", "<", ">", "!=", "%"} -> IsConstant(0)
      [] last.op \in {"==", "<="} -> IsConstant(1)
      [] last.op = "|" -> ReturnedSelf
      [] last.op \in {">=", "&"} -> ~last.ok /\ last.err = "TypeError"
      [] last.op \in {"/", "//"} ->
           IF MayBeZero(last.args[1])
           THEN ~last.ok /\ last.err = "ZeroDivisionError"
           ELSE IsConstant(1)

\* the case that decides C28: X % X for an X that is 0 with positive
\* probability returns a constant
C28_ModOfZero ==
  IsSelfCall /\ last.op = "%" /\ MayBeZero(last.args[1]) /\ IsConstant(0)


\* the coordinate of the space s in the outcome w of the space of r
CoordOf(r, w, s) ==
  LET comps == PSpacesOf(pspaces, rvs[r].pspace)
  IN  w[CHOOSE i \in 1..Len(comps) : comps[i] = s]

\* the value of x on the outcome w of the space of r, x being over some of
\* the spaces r is over
ValueOn(x, r, w) ==
  LET own == PSpacesOf(pspaces, rvs[x].pspace)
  IN  Func(pspaces, rvs, x, [i \in 1..Len(own) |-> CoordOf(r, w, own[i])])

\* r is 1 with probability 1
Surely(r) == REq(Pr(r, 1), ROne)

C25_WitnessAbs ==
  /\ last.op = "test_abs_properties" /\ last.ok
  /\ \E v \in Values(last.args[1]) : v < 0 /\ RPos(Pr(last.args[1], v))
  /\ Surely(last.args[2])

\* sfunc with a coordinate too many, and with its own coordinate missing
C25_WitnessExtra == last.op = "sfunc" /\ last.args[2] = {1, 2} /\ last.ok
C25_WitnessMissing == last.op = "sfunc" /\ last.args[2] = {2} /\ ~last.ok


\* the values r takes with positive probability
SupportOf(r) == {v \in Values(r) : RPos(Pr(r, v))}

\* f is X flattened: over a space of its own with one outcome for each value
\* of the support of X, in increasing order, and with the pmf of X
IsFlat(f, x) ==
  LET s == rvs[f].pspace
      n == Cardinality(SupportOf(x))
  IN  /\ pspaces[s].kind = "F"
      /\ \A r \in 1..Len(rvs) : r # f => rvs[r].pspace # s
      /\ \A t \in 1..Len(pspaces) : s \notin {pspaces[t].pspaces[i] : i \in 1..Len(pspaces[t].pspaces)}
      /\ Len(pspaces[s].ps) = n
      /\ \A w \in 0..(n - 1) :
           /\ Func(pspaces, rvs, f, <<w>>) \in SupportOf(x)
           /\ Cardinality({v \in SupportOf(x) : v < Func(pspaces, rvs, f, <<w>>)}) = w
      /\ \A v \in Values(x) \cup Values(f) :
           /\ REq(Pr(f, v), Pr(x, v))
           /\ REq(pmf(pspaces, rvs, f, v), pmf(pspaces, rvs, x, v))

C23_WitnessZero ==
  /\ last.op = "flatten" /\ last.ok
  /\ Values(last.args[1]) # SupportOf(last.args[1])
====
